---- MODULE Spec2Model ----
(***************************************************************************)
(* Model of serpyco: the schema builder (serpyco/schema.py), the record    *)
(* serializer and the structural validator built on its schema.            *)
(*                                                                         *)
(* Python values, JSON values and JSON schemas are TLA+ records tagged by  *)
(* a first field (j for values, s for schema fragments, k for types) so    *)
(* that values of different shapes can be compared.                        *)
(***************************************************************************)
EXTENDS Integers, Sequences, FiniteSets, TLC

(***************************************************************************)
(* Bounds of the model.                                                    *)
(***************************************************************************)
\* number of nested _create_json_schema calls after which a build is
\* reported as not terminating
MaxDepth == 6
\* longest only / exclude list given to the root builder
MaxView == 2
\* number of API calls made on one builder in one behaviour
MaxCalls == 3
\* depth of the records given to dump
MaxNest == 2
\* longest sequence of records dumped or loaded with many=True
MaxMany == 1

(***************************************************************************)
(* Type expressions (the typing module's view of a field annotation).      *)
(***************************************************************************)
Ty(k, of, name) == [k |-> k, of |-> of, name |-> name]
StrT == Ty("str", <<>>, "str")
IntT == Ty("int", <<>>, "int")
BoolT == Ty("bool", <<>>, "bool")
FloatT == Ty("float", <<>>, "float")
NoneT == Ty("none", <<>>, "NoneType")
AnyT == Ty("any", <<>>, "Any")
UnionT(ts) == Ty("union", ts, "")
OptionalT(t) == UnionT(<<t, NoneT>>)
ListT(t) == Ty("list", <<t>>, "")
DictT(t) == Ty("dict", <<StrT, t>>, "")
TupleT(ts) == Ty("tuple", ts, "")
NewTypeT(name, t) == Ty("newtype", <<t>>, name)
TVar(name) == Ty("tvar", <<>>, name)
DC(name) == Ty("dc", <<>>, name)
DCG(name, args) == Ty("dc", args, name)

(***************************************************************************)
(* Values: Python objects and JSON values share one encoding.              *)
(***************************************************************************)
Null == [j |-> "null"]
IntV(i) == [j |-> "int", i |-> i]
StrV(s) == [j |-> "str", s |-> s]
Arr(a) == [j |-> "arr", a |-> a]
Obj(m) == [j |-> "obj", m |-> m]
Inst(cls, f) == [j |-> "inst", cls |-> cls, f |-> f]
\* dataclasses.MISSING
MISSING == [j |-> "MISSING"]
\* the empty dict / the empty mapping
EmptyMap == [x \in {} |-> Null]

(***************************************************************************)
(* Field hints (serpyco/field.py) and dataclass fields.                    *)
(***************************************************************************)
\* the value None of FieldHints.dict_key; no field can be named so
NoneKey == "<None>"
\* the value None of FieldHints.validator / description
NoValidator == "<no validator>"
NoDescription == "<no description>"

FieldHints(dict_key, ignore, validator, description, only, exclude) ==
    [dict_key |-> dict_key, ignore |-> ignore, validator |-> validator,
     description |-> description, only |-> only, exclude |-> exclude,
     type_encoders |-> EmptyMap]

\* serpyco.field(...): a hints object whose dict_key is None unless given
field(dict_key, ignore, validator, description) ==
    FieldHints(dict_key, ignore, validator, description, <<>>, <<>>)

\* serpyco.nested_field(only=..., exclude=...)
nested_field(only, exclude) ==
    FieldHints(NoneKey, FALSE, NoValidator, NoDescription, only, exclude)

\* a FieldEncoder object: what its json_schema() returns
FieldEncoder(name, schema) == [name |-> name, schema |-> schema]

\* serpyco.nested_field(type_encoders=...)
nested_field_encoders(type_encoders) ==
    [nested_field(<<>>, <<>>) EXCEPT !.type_encoders = type_encoders]

\* a dataclasses.Field: metadata is FALSE when the field was declared
\* without serpyco hints
Field(name, type, default, factory, metadata, hints) ==
    [name |-> name, type |-> type, default |-> default, factory |-> factory,
     metadata |-> metadata, hints |-> hints]

NoHints == FieldHints(NoneKey, FALSE, NoValidator, NoDescription, <<>>, <<>>)
Plain(name, type) == Field(name, type, MISSING, FALSE, FALSE, NoHints)
WithDefault(name, type, default) == Field(name, type, default, FALSE, FALSE, NoHints)
WithFactory(name, type) == Field(name, type, MISSING, TRUE, FALSE, NoHints)
Hinted(name, type, default, hints) == Field(name, type, default, FALSE, TRUE, hints)

(***************************************************************************)
(* The dataclasses the model is run on: those of tests/test_unit.py and    *)
(* the shapes the properties are about.                                    *)
(***************************************************************************)
ClassNames ==
    {"Simple", "First", "Second", "TreeNode", "Nested", "Parent",
     "OptionalCustom", "WithVal", "Foo", "FooNoDefault", "Bar", "Desc",
     "Defaults", "Node", "Alias", "Gen", "WithGen", "FooDict", "Holder",
     "Types", "Under", "Views", "Pair", "Keyed", "Ignore", "Loose"}

\* the dataclasses conversions with hooks and field validators are made on
CallClassNames == {"Decorated", "Audited", "Swap", "FooV", "ListFoo", "DictFoo", "TwoFoo"}
\* the classes the encoder registry is exercised with
RegistryClassNames == {"Simple", "Inner", "Nest"}
\* the classes values are validated against
ValidatorClassNames == {"Several", "Decorated", "Wrap"}

DataclassFields(cls) ==
    CASE cls = "Simple" -> <<Plain("name", StrT)>>
      [] cls = "First" -> <<Plain("second", DC("Second"))>>
      [] cls = "Second" -> <<Plain("first", DC("First"))>>
      [] cls = "TreeNode" -> <<Plain("sub_nodes", ListT(DC("TreeNode")))>>
      [] cls = "Nested" -> <<Plain("foo", StrT), Plain("bar", StrT)>>
      [] cls = "Parent" ->
            <<Hinted("first", DC("Nested"), MISSING, nested_field(<<"foo">>, <<>>)),
              Hinted("second", DC("Nested"), MISSING, nested_field(<<>>, <<"foo">>))>>
      [] cls = "OptionalCustom" -> <<Plain("name", OptionalT(StrT))>>
      [] cls = "WithVal" ->
            <<Hinted("foo", OptionalT(StrT), StrV("bar"),
                     field(NoneKey, FALSE, "validate", NoDescription))>>
      [] cls = "Foo" -> <<Plain("name", StrT), WithDefault("description", StrT, StrV(""))>>
      [] cls = "FooNoDefault" -> <<Plain("name", StrT), Plain("description", StrT)>>
      [] cls = "Bar" ->
            <<Plain("name", StrT),
              Hinted("description", StrT, StrV(""),
                     field(NoneKey, TRUE, NoValidator, NoDescription))>>
      [] cls = "Desc" ->
            <<Hinted("value", IntT, MISSING,
                     field(NoneKey, FALSE, NoValidator, "An integer"))>>
      [] cls = "Defaults" ->
            <<WithDefault("foo", StrT, StrV("foo")), WithFactory("bar", StrT),
              WithDefault("opt", OptionalT(IntT), Null)>>
      [] cls = "Node" ->
            <<Plain("value", IntT),
              Hinted("next", OptionalT(DC("Node")), Null, nested_field(<<"value">>, <<>>))>>
      [] cls = "Alias" -> <<Plain("ref", NewTypeT("SimpleId", DC("Simple")))>>
      [] cls = "Gen" -> <<Plain("foo", StrT), Plain("bar", TVar("T"))>>
      [] cls = "WithGen" ->
            <<Plain("nested", DCG("Gen", <<IntT>>)), Plain("other", DCG("Gen", <<StrT>>))>>
      [] cls = "FooDict" -> <<Plain("foos", OptionalT(DictT(DC("Simple"))))>>
      [] cls = "Holder" -> <<Plain("foo_dict", DC("FooDict"))>>
      [] cls = "Types" ->
            <<Plain("integer", IntT), Plain("nested", DC("Simple")),
              Plain("nesteds", ListT(DC("Simple"))),
              WithDefault("optional", OptionalT(IntT), Null)>>
      [] cls = "Under" -> <<Plain("a", StrT), Plain("b", StrT), Plain("a_b", StrT)>>
      [] cls = "Views" ->
            <<Hinted("x", DC("Under"), MISSING, nested_field(<<"a", "b">>, <<>>)),
              Hinted("y", DC("Under"), MISSING, nested_field(<<"a_b">>, <<>>))>>
      [] cls = "Pair" -> <<Plain("pair", TupleT(<<IntT, DC("Simple")>>))>>
      [] cls = "Keyed" ->
            <<Hinted("foo", StrT, MISSING,
                     field("f", FALSE, NoValidator, NoDescription))>>
      [] cls = "Ignore" ->
            <<Hinted("foo", StrT, MISSING,
                     field(NoneKey, TRUE, NoValidator, NoDescription))>>
      [] cls = "Loose" ->
            <<WithDefault("name", AnyT, Null), WithDefault("opt", OptionalT(IntT), Null)>>
      [] cls = "Decorated" -> <<Plain("foo", OptionalT(StrT)), Plain("bar", IntT)>>
      [] cls = "Audited" -> <<Plain("bar", IntT)>>
      [] cls = "Swap" ->
            <<Hinted("b", StrT, MISSING, field("a", FALSE, NoValidator, NoDescription)),
              Hinted("a", OptionalT(StrT), Null,
                     field("x", FALSE, "check", NoDescription))>>
      [] cls = "FooV" ->
            <<Hinted("bar", StrT, MISSING,
                     field(NoneKey, FALSE, "validator", NoDescription))>>
      [] cls = "ListFoo" -> <<Plain("foos", ListT(DC("FooV")))>>
      [] cls = "DictFoo" -> <<Plain("foos", DictT(DC("FooV")))>>
      [] cls = "TwoFoo" -> <<Plain("one", DC("FooV")), Plain("two", DC("FooV"))>>
      [] cls = "Inner" -> <<Plain("name", StrT), Plain("count", IntT)>>
      [] cls = "Several" -> <<Plain("bar", StrT), Plain("foo", IntT)>>
      [] cls = "Wrap" -> <<Plain("hello", IntT), Plain("several", DC("Several"))>>
      [] cls = "Nest" ->
            <<Plain("name", StrT),
              Hinted("nested", DC("Inner"), MISSING,
                     nested_field_encoders(
                        StrT :> FieldEncoder("Encoder", [s |-> "any",
                                                         description |-> "<no description>"])))>>

\* the type parameters of a generic dataclass (__parameters__)
DataclassParameters(cls) == IF cls = "Gen" THEN <<TVar("T")>> ELSE <<>>


(***************************************************************************)
(* serpyco/util.py                                                         *)
(***************************************************************************)
Contains(seq, x) == \E i \in DOMAIN seq : seq[i] = x

IndexOf(seq, x) == CHOOSE i \in DOMAIN seq : seq[i] = x /\ \A j \in 1..(i - 1) : seq[j] # x

JSON_ENCODABLE_TYPES == {StrT, IntT, BoolT, FloatT}

JsonTypeName(t) ==
    CASE t = StrT -> "string"
      [] t = IntT -> "integer"
      [] t = BoolT -> "boolean"
      [] t = FloatT -> "number"

_is_union(field_type) == field_type.k = "union"

_is_optional(field_type) == _is_union(field_type) /\ Contains(field_type.of, NoneT)

\* _is_generic(field_type, typing.Mapping)
_is_mapping(field_type) == field_type.k = "dict"

\* _is_generic(field_type, tuple)
_is_tuple(field_type) == field_type.k = "tuple"

\* _is_generic(field_type, typing.Iterable): list, dict and tuple origins
\* are all subclasses of Iterable
_is_iterable(field_type) == field_type.k \in {"list", "dict", "tuple"}

\* _DataClassParams(type_); ok is FALSE where the code raises
\* NotADataClassError
_DataClassParams(type_) ==
    [ok |-> type_.k = "dc",
     type_ |-> type_.name,
     arguments |-> IF type_.k = "dc" THEN type_.of ELSE <<>>,
     parameters |-> IF type_.k = "dc" /\ type_.of # <<>>
                    THEN DataclassParameters(type_.name) ELSE <<>>]

resolve_type(params, field_type) ==
    IF Contains(params.parameters, field_type)
    THEN params.arguments[IndexOf(params.parameters, field_type)]
    ELSE field_type

\* module name + "." + class name
_get_qualified_type_name(type_) == "test_unit." \o type_

(***************************************************************************)
(* serpyco/schema.py                                                       *)
(***************************************************************************)
RECURSIVE Join(_, _)
\* sep.join(strs)
Join(strs, sep) ==
    IF strs = <<>> THEN ""
    ELSE IF Len(strs) = 1 THEN strs[1]
    ELSE strs[1] \o sep \o Join(Tail(strs), sep)

default_get_definition_name(type_, arguments, only, exclude) ==
    _get_qualified_type_name(type_)
      \o (IF arguments # <<>>
          THEN "[" \o Join([i \in DOMAIN arguments |-> arguments[i].name], ",") \o "]"
          ELSE "")
      \o (IF only # <<>> THEN "_only_" \o Join(only, "_") ELSE "")
      \o (IF exclude # <<>> THEN "_exclude_" \o Join(exclude, "_") ELSE "")

\* schema fragments of a field
AnyS == [s |-> "any", description |-> NoDescription]
TypeS(t) == [s |-> "type", type |-> t, description |-> NoDescription]
AnyOfS(schemas) == [s |-> "anyOf", anyOf |-> schemas, description |-> NoDescription]
ObjectS(add) == [s |-> "object", additionalProperties |-> add, description |-> NoDescription]
ArrayS(items) == [s |-> "array", items |-> items, description |-> NoDescription]
TupleS(items) ==
    [s |-> "tuple", minItems |-> Len(items), maxItems |-> Len(items),
     tuple_items |-> items, description |-> NoDescription]
RefS(ref) == [s |-> "ref", ref |-> ref, description |-> NoDescription]
\* raised SchemaError
SchemaErrorS == [s |-> "SchemaError", description |-> NoDescription]
\* json_schema() of an encoder returning None
NoneSchema == [s |-> "None"]
\* the empty dict a builder starts with in _schema and _many_schema
EmptySchema == [type |-> "empty"]

\* the fields a builder keeps; keyed is the set of <<class, field>> whose
\* hints object had its dict_key filled in by a Serializer
HintsOf(cls, f, keyed) ==
    IF ~f.metadata
    THEN FieldHints(f.name, FALSE, NoValidator, NoDescription, <<>>, <<>>)
    ELSE IF f.hints.dict_key = NoneKey /\ <<cls, f.name>> \in keyed
         THEN [f.hints EXCEPT !.dict_key = f.name]
         ELSE f.hints

_SchemaBuilderField(cls, f, keyed) == [field |-> f, hints |-> HintsOf(cls, f, keyed)]

\* a filter that forgets the exclude list
Kept_NoExclude(vfield, only, exclude) ==
    ~(\/ vfield.hints.ignore
      \/ (only # <<>> /\ ~Contains(only, vfield.field.name)))

\* does a builder keep the field (schema.py:106-111)
Kept(vfield, only, exclude) ==
    ~(\/ vfield.hints.ignore
      \/ (only # <<>> /\ ~Contains(only, vfield.field.name))
      \/ (exclude # <<>> /\ Contains(exclude, vfield.field.name)))

RECURSIVE FilterFields(_, _, _, _)
FilterFields(cls, fs, only, exclude) ==
    IF fs = <<>> THEN <<>>
    ELSE (IF Kept(fs[1], only, exclude) THEN <<fs[1]>> ELSE <<>>)
           \o FilterFields(cls, Tail(fs), only, exclude)

SchemaBuilder(dataclass, only, exclude, type_encoders, strict, id, keyed) ==
    LET params == _DataClassParams(dataclass)
        all == [i \in DOMAIN DataclassFields(params.type_) |->
                   _SchemaBuilderField(params.type_, DataclassFields(params.type_)[i], keyed)]
    IN [id |-> id,
        _dataclass |-> params,
        _only |-> only,
        _exclude |-> exclude,
        _types |-> type_encoders,
        _fields |-> FilterFields(params.type_, all, only, exclude),
        _nested_builders |-> {},
        _field_validators |-> <<>>,
        _schema |-> EmptySchema,
        _many_schema |-> EmptySchema,
        _strict |-> strict]

\* what __hash__ hashes
BuilderKey(b) == <<b._dataclass.type_, b._dataclass.arguments, b._only, b._exclude>>

RECURSIVE Dedup(_)
Dedup(seq) ==
    IF seq = <<>> THEN <<>>
    ELSE LET rest == Dedup(SubSeq(seq, 1, Len(seq) - 1))
         IN IF Contains(rest, seq[Len(seq)]) THEN rest ELSE Append(rest, seq[Len(seq)])

RECURSIVE FlatTypes(_), FlatTypesOf(_)
FlatTypesOf(ts) == IF ts = <<>> THEN <<>> ELSE FlatTypes(ts[1]) \o FlatTypesOf(Tail(ts))
FlatTypes(field_type) ==
    IF _is_union(field_type) \/ _is_mapping(field_type) \/ _is_iterable(field_type)
    THEN FlatTypesOf(field_type.of)
    ELSE <<field_type>>

\* the set of root types of a field type, in declaration order
_get_types(field_type) == Dedup(FlatTypes(field_type))


\* an encoder's dump(value): the encoder is a user callable, its result is
\* kept as the value tagged with the encoder
EncoderDump(encoder, value) == [j |-> "dumped", by |-> encoder.name, of |-> value]

\* the $ref of a nested dataclass field (schema.py:406-418)
RefOf(params, parent_builders, vfield) ==
    IF params = parent_builders[1].dc
    THEN "#"
    ELSE "#/definitions/"
           \o default_get_definition_name(params.type_, params.arguments,
                                          vfield.hints.only, vfield.hints.exclude)

\* the description hint put on a field schema (schema.py:423-424)
Described(vfield, field_schema) ==
    IF vfield.hints.description # NoDescription /\ field_schema # NoneSchema
    THEN [field_schema EXCEPT !.description = vfield.hints.description]
    ELSE field_schema

RECURSIVE _get_field_schema(_, _, _, _, _)
\* the schema of a field type; the second component of the code's result is
\* dropped, its only caller overwrites it (schema.py:198)
_get_field_schema(self, type_, parent_builders, vfield, global_types) ==
    LET field_type == resolve_type(self._dataclass, type_)
        args == field_type.of
        sub(t) == _get_field_schema(self, t, parent_builders, vfield, global_types)
        params == _DataClassParams(field_type)
    IN IF field_type \in DOMAIN self._types /\ self._types[field_type].schema # NoneSchema
       THEN self._types[field_type].schema
       ELSE Described(vfield,
            IF field_type \in DOMAIN global_types
                THEN global_types[field_type].schema
            ELSE IF field_type = AnyT THEN AnyS
            ELSE IF field_type = NoneT THEN TypeS("null")
            ELSE IF _is_union(field_type)
                THEN AnyOfS([i \in DOMAIN args |-> sub(args[i])])
            ELSE IF field_type \in JSON_ENCODABLE_TYPES
                THEN TypeS(JsonTypeName(field_type))
            ELSE IF _is_mapping(field_type) THEN ObjectS(sub(args[2]))
            ELSE IF _is_tuple(field_type)
                THEN TupleS([i \in DOMAIN args |-> sub(args[i])])
            ELSE IF _is_iterable(field_type) THEN ArrayS(sub(args[1]))
            ELSE IF field_type.k = "newtype" THEN sub(args[1])
            ELSE IF params.ok THEN RefS(RefOf(params, parent_builders, vfield))
            ELSE SchemaErrorS)

\* the entry a builder leaves in parent_builders
ParentEntry(b) == [id |-> b.id, key |-> BuilderKey(b), dc |-> b._dataclass]

\* a search of parent_builders that never finds the key
AlreadyBuilding_Never(parent_builders, key) == FALSE

\* is one of the builders being built hashed like the key (schema.py:231-240)
AlreadyBuilding(parent_builders, key) ==
    \E i \in DOMAIN parent_builders : parent_builders[i].key = key

\* is_required asking for a default factory instead of the lack of one
IsRequired_WithFactory(vfield) == vfield.field.default = MISSING /\ vfield.field.factory

\* is_required of a field (schema.py:198-201)
IsRequired(vfield) == vfield.field.default = MISSING /\ ~vfield.field.factory

RecordSchema(self, properties, required) ==
    [type |-> "object",
     properties |-> properties,
     comment |-> _get_qualified_type_name(self._dataclass.type_),
     additionalProperties |-> ~self._strict,
     required |-> required]

RECURSIVE _create_json_schema(_, _, _, _, _, _), FieldsLoop(_, _, _, _, _),
          ItemTypesLoop(_, _, _, _, _, _, _, _)

\* what the loop body does once the sub-builder r.self has built r.schema
\* (schema.py:250-269)
NestedBuilt(acc, vfield, is_iterable, no_field_validators, definition_name, sub, r) ==
    [acc EXCEPT
        !.self._nested_builders =
            @ \cup {[name |-> definition_name, id |-> sub.id, key |-> BuilderKey(sub)]}
              \cup sub._nested_builders,
        !.self._field_validators =
            IF no_field_validators
            THEN @ \o [i \in DOMAIN r.self._field_validators |->
                         <<vfield.field.name
                             \o (IF is_iterable THEN "/*/" ELSE "/")
                             \o r.self._field_validators[i][1],
                           r.self._field_validators[i][2]>>]
            ELSE @,
        !.definitions = r.schema @@ (definition_name :> NoneSchema) @@ @,
        !.ctx = r.ctx]

\* the sub-builder is created and builds its schema (schema.py:241-254)
Descend(acc, vfield, is_iterable, no_field_validators, env, fuel, definition_name, sub) ==
    NestedBuilt(acc, vfield, is_iterable, no_field_validators, definition_name, sub,
                _create_json_schema(sub, is_iterable, TRUE,
                                    [acc.ctx EXCEPT !.next_id = @ + 1], env, fuel - 1))

\* the body of the loop over _get_types(field_type) (schema.py:216-269)
ItemType(item_type, acc, vfield, is_iterable, no_field_validators, env, fuel) ==
    LET self == acc.self
        params == _DataClassParams(item_type)
        definition_name ==
            default_get_definition_name(params.type_, params.arguments,
                                        vfield.hints.only, vfield.hints.exclude)
        key == <<params.type_, params.arguments, vfield.hints.only, vfield.hints.exclude>>
    IN IF ~params.ok THEN acc
       ELSE IF definition_name \in DOMAIN acc.definitions THEN acc
       ELSE IF AlreadyBuilding(acc.ctx.parent_builders, key) THEN acc
       ELSE IF fuel = 0 THEN [acc EXCEPT !.ctx.overflow = TRUE]
       ELSE Descend(acc, vfield, is_iterable, no_field_validators, env, fuel,
                    definition_name,
                    SchemaBuilder(item_type, vfield.hints.only, vfield.hints.exclude,
                                  IF vfield.hints.type_encoders # EmptyMap
                                  THEN vfield.hints.type_encoders ELSE self._types,
                                  FALSE, acc.ctx.next_id, env.keyed))

\* the loop over _get_types(field_type) of schema.py:215-269
ItemTypesLoop(types, n, acc, vfield, is_iterable, no_field_validators, env, fuel) ==
    IF n > Len(types) THEN acc
    ELSE ItemTypesLoop(types, n + 1,
                       ItemType(resolve_type(acc.self._dataclass, types[n]), acc, vfield,
                                is_iterable, no_field_validators, env, fuel),
                       vfield, is_iterable, no_field_validators, env, fuel)

\* the loop over self._fields of schema.py:185-276
FieldsLoop(n, acc, no_field_validators, env, fuel) ==
    IF n > Len(acc.self._fields) THEN acc
    ELSE
      LET self == acc.self
          vfield == self._fields[n]
          field_type == resolve_type(self._dataclass, vfield.field.type)
          field_schema == _get_field_schema(self, field_type, acc.ctx.parent_builders,
                                            vfield, env.global_types)
          is_required == IsRequired(vfield)
          default_value ==
              IF vfield.field.default # MISSING /\ field_type \in DOMAIN self._types
                   /\ vfield.field.default # Null
              THEN EncoderDump(self._types[field_type], vfield.field.default)
              ELSE vfield.field.default
          acc1 == [acc EXCEPT !.properties =
                      (vfield.hints.dict_key :>
                          [schema |-> field_schema, default |-> default_value]) @@ @]
          acc2 == ItemTypesLoop(_get_types(field_type), 1, acc1, vfield,
                                _is_iterable(field_type), no_field_validators, env, fuel)
          acc3 == [acc2 EXCEPT
                      !.required = IF is_required THEN Append(@, vfield.hints.dict_key) ELSE @,
                      !.self._field_validators =
                          IF vfield.hints.validator # NoValidator /\ no_field_validators
                          THEN Append(@, <<vfield.field.name, vfield.hints.validator>>)
                          ELSE @]
      IN FieldsLoop(n + 1, acc3, no_field_validators, env, fuel)

\* the body of the loop for field n alone: the loop as it runs when n is
\* the last field
FieldBody(n, acc, no_field_validators, env, fuel) ==
    [FieldsLoop(n, [acc EXCEPT !.self._fields = SubSeq(@, 1, n)],
                no_field_validators, env, fuel)
        EXCEPT !.self._fields = acc.self._fields]

\* the result of a build: the schema in the shape asked for
\* (schema.py:278-314), the builder as the call leaves it and the shared
\* parent_builders list
Assemble(self, many, embeddable, acc) ==
    [schema |->
        IF embeddable
        THEN (default_get_definition_name(self._dataclass.type_, self._dataclass.arguments,
                                          self._only, self._exclude)
                :> RecordSchema(self, acc.properties, acc.required)) @@ acc.definitions
        ELSE IF ~many
             THEN [type |-> "object",
                   record |-> RecordSchema(self, acc.properties, acc.required),
                   definitions |-> acc.definitions]
             ELSE [type |-> "array",
                   items |-> RecordSchema(self, acc.properties, acc.required),
                   definitions |-> acc.definitions],
     self |-> acc.self,
     ctx |-> acc.ctx]

\* fuel counts the nested calls still allowed
_create_json_schema(self, many, embeddable, ctx, env, fuel) ==
    Assemble(self, many, embeddable,
             FieldsLoop(1,
                        [properties |-> EmptyMap, required |-> <<>>,
                         definitions |-> EmptyMap, self |-> self,
                         ctx |-> [ctx EXCEPT !.parent_builders = Append(@, ParentEntry(self))]],
                        self._field_validators = <<>>, env, fuel))

\* a call made by the public methods: no parent builders yet
NewContext(next_id) == [parent_builders |-> <<>>, next_id |-> next_id, overflow |-> FALSE]


(***************************************************************************)
(* Structural validation of a value against an emitted schema (the         *)
(* draft-04 keywords the builder emits: type, properties, required,        *)
(* additionalProperties, items, minItems, maxItems, anyOf, $ref).          *)
(***************************************************************************)
JsonTypeOf(v) ==
    CASE v.j = "null" -> "null"
      [] v.j = "int" -> "integer"
      [] v.j = "str" -> "string"
      [] v.j = "arr" -> "array"
      [] v.j = "obj" -> "object"
      [] OTHER -> "unknown"

RECURSIVE ValidFragment(_, _, _), ValidRecord(_, _, _)

\* top is the top-level schema: "#" and "#/definitions/N" are resolved in it
ValidRecord(record_schema, v, top) ==
    /\ record_schema # NoneSchema
    /\ v.j = "obj"
    /\ \A i \in DOMAIN record_schema.required : record_schema.required[i] \in DOMAIN v.m
    /\ \A key \in DOMAIN v.m :
          IF key \in DOMAIN record_schema.properties
          THEN ValidFragment(record_schema.properties[key].schema, v.m[key], top)
          ELSE record_schema.additionalProperties

ValidFragment(schema, v, top) ==
    CASE schema.s = "any" -> TRUE
      [] schema.s = "type" ->
            \/ JsonTypeOf(v) = schema.type
            \/ (schema.type = "number" /\ JsonTypeOf(v) = "integer")
      [] schema.s = "anyOf" ->
            \E i \in DOMAIN schema.anyOf : ValidFragment(schema.anyOf[i], v, top)
      [] schema.s = "object" ->
            /\ v.j = "obj"
            /\ \A key \in DOMAIN v.m : ValidFragment(schema.additionalProperties, v.m[key], top)
      [] schema.s = "array" ->
            /\ v.j = "arr"
            /\ \A i \in DOMAIN v.a : ValidFragment(schema.items, v.a[i], top)
      [] schema.s = "tuple" ->
            /\ v.j = "arr"
            /\ Len(v.a) >= schema.minItems
            /\ Len(v.a) <= schema.maxItems
            /\ \A i \in DOMAIN v.a : ValidFragment(schema.tuple_items[i], v.a[i], top)
      [] schema.s = "ref" ->
            IF schema.ref = "#"
            THEN ValidRecord(IF top.type = "array" THEN top.items ELSE top.record, v, top)
            ELSE \E name \in DOMAIN top.definitions :
                    /\ schema.ref = "#/definitions/" \o name
                    /\ ValidRecord(top.definitions[name], v, top)
      [] OTHER -> FALSE

\* validation of a value against a top-level schema
Validates(top, v) ==
    IF top.type = "array"
    THEN v.j = "arr" /\ \A i \in DOMAIN v.a : ValidRecord(top.items, v.a[i], top)
    ELSE ValidRecord(top.record, v, top)


(***************************************************************************)
(* The record serializer: dump and load over the per-field plan.           *)
(***************************************************************************)
\* a failed conversion (an exception other than ValidationError)
Error == [j |-> "error"]
\* a raised ValidationError
ValidationError == [j |-> "ValidationError"]

\* what a default factory returns
DefaultFactoryValue == StrV("bar")

\* every hints object a Serializer has visited has its dict_key filled in
AllKeyed ==
    UNION {{<<cls, DataclassFields(cls)[i].name>> : i \in DOMAIN DataclassFields(cls)} :
              cls \in ClassNames \cup CallClassNames \cup RegistryClassNames}

\* the field plan: the fields of the view, with their hints
FieldPlan(type_, only, exclude) ==
    SchemaBuilder(type_, only, exclude, EmptyMap, FALSE, 0, AllKeyed)._fields

\* does a Python value have the given type
RECURSIVE HasType(_, _)
HasType(t, v) ==
    CASE t.k = "str" -> v.j = "str"
      [] t.k = "int" -> v.j = "int"
      [] t.k = "none" -> v.j = "null"
      [] t.k = "any" -> TRUE
      [] t.k = "union" -> \E i \in DOMAIN t.of : HasType(t.of[i], v)
      [] t.k = "list" -> v.j = "arr"
      [] t.k = "tuple" -> v.j = "arr"
      [] t.k = "dict" -> v.j = "obj"
      [] t.k = "newtype" -> HasType(t.of[1], v)
      [] t.k = "dc" -> v.j = "inst" /\ v.cls = t.name
      [] OTHER -> FALSE

RECURSIVE DumpValue(_, _, _, _), DumpRecord(_, _, _, _, _), DumpFields(_, _, _, _, _)

\* dump of one value through the codec of its type; hints carries the
\* only / exclude of the field for the records below it
DumpValue(t, v, hints, omit_none) ==
    CASE t.k = "union" ->
            LET i == CHOOSE i \in DOMAIN t.of :
                        HasType(t.of[i], v) /\ \A k \in 1..(i - 1) : ~HasType(t.of[k], v)
            IN DumpValue(t.of[i], v, hints, omit_none)
      [] t.k \in {"list", "tuple"} ->
            Arr([i \in DOMAIN v.a |->
                    DumpValue(IF t.k = "list" THEN t.of[1] ELSE t.of[i],
                              v.a[i], hints, omit_none)])
      [] t.k = "dict" ->
            Obj([key \in DOMAIN v.m |-> DumpValue(t.of[2], v.m[key], hints, omit_none)])
      [] t.k = "newtype" -> DumpValue(t.of[1], v, hints, omit_none)
      [] t.k = "dc" -> DumpRecord(t, hints.only, hints.exclude, v, omit_none)
      [] OTHER -> v

\* one key of the output: left out when the value is None, the field is
\* Optional and omit_none is set
PutKey(rest, dict_key, dumped, omitted_when_none) ==
    IF dumped = Null /\ omitted_when_none THEN rest ELSE rest @@ (dict_key :> dumped)

\* a dump that leaves out every None when omit_none is set
DumpField_OmitAnyNone(vfield, field_type, x, omit_none, rest) ==
    PutKey(rest, vfield.hints.dict_key,
           DumpValue(field_type, x.f[vfield.field.name], vfield.hints, omit_none),
           omit_none)

DumpField(vfield, field_type, x, omit_none, rest) ==
    PutKey(rest, vfield.hints.dict_key,
           DumpValue(field_type, x.f[vfield.field.name], vfield.hints, omit_none),
           omit_none /\ _is_optional(field_type))

DumpFields(params, plan, n, x, omit_none) ==
    IF n > Len(plan) THEN EmptyMap
    ELSE DumpField(plan[n], resolve_type(params, plan[n].field.type), x, omit_none,
                   DumpFields(params, plan, n + 1, x, omit_none))

\* steps 2 of dump: one key per field of the plan
DumpRecord(type_, only, exclude, x, omit_none) ==
    Obj(DumpFields(_DataClassParams(type_), FieldPlan(type_, only, exclude), 1, x, omit_none))

RECURSIVE LoadValue(_, _, _), LoadRecord(_, _, _, _), LoadUnion(_, _, _, _),
          LoadField(_, _, _, _, _), LoadFields(_, _, _, _)

\* a load that gives up on every absent key
AbsentValue_AlwaysError(f, field_type, in_plan) == Error

\* the value load gives a field whose key is absent from the input (or
\* that the plan does not hold)
AbsentValue(f, field_type, in_plan) ==
    IF f.default # MISSING THEN f.default
    ELSE IF f.factory THEN DefaultFactoryValue
    ELSE IF in_plan /\ _is_optional(field_type) THEN Null
    ELSE Error

\* the variants of a union are tried in declared order
\* the first variant that loads wins
FirstLoaded(r, ts, n, v, hints) ==
    IF r # Error THEN r ELSE LoadUnion(ts, n + 1, v, hints)

\* the variants of a union are tried in declared order
LoadUnion(ts, n, v, hints) ==
    IF n > Len(ts) THEN Error
    ELSE FirstLoaded(IF ts[n] = NoneT THEN (IF v = Null THEN Null ELSE Error)
                     ELSE LoadValue(ts[n], v, hints),
                     ts, n, v, hints)

\* a container whose items all loaded, or the failure of one of them
ArrOrError(items) ==
    IF \E i \in DOMAIN items : items[i] = Error THEN Error ELSE Arr(items)

ObjOrError(items) ==
    IF \E key \in DOMAIN items : items[key] = Error THEN Error ELSE Obj(items)

LoadValue(t, v, hints) ==
    CASE t.k = "union" -> IF v = Null /\ Contains(t.of, NoneT) THEN Null
                          ELSE LoadUnion(t.of, 1, v, hints)
      [] t.k \in {"list", "tuple"} ->
            IF v.j # "arr" THEN Error
            ELSE IF t.k = "tuple" /\ Len(v.a) # Len(t.of) THEN Error
            ELSE ArrOrError([i \in DOMAIN v.a |->
                               LoadValue(IF t.k = "list" THEN t.of[1] ELSE t.of[i],
                                         v.a[i], hints)])
      [] t.k = "dict" ->
            IF v.j # "obj" THEN Error
            ELSE ObjOrError([key \in DOMAIN v.m |-> LoadValue(t.of[2], v.m[key], hints)])
      [] t.k = "newtype" -> LoadValue(t.of[1], v, hints)
      [] t.k = "dc" -> LoadRecord(t, hints.only, hints.exclude, v)
      [] OTHER -> v

\* the field of a given name
FieldNamed(fields, name) == fields[CHOOSE i \in DOMAIN fields : fields[i].name = name]

\* the place of a field in the plan, 0 when the view leaves it out
PlanIndex(plan, name) ==
    IF \E i \in DOMAIN plan : plan[i].field.name = name
    THEN CHOOSE i \in DOMAIN plan : plan[i].field.name = name
    ELSE 0

\* step 3 of load: the key of a field of the plan is read and decoded, an
\* absent one gets its default
LoadField(f, field_type, plan, n, v) ==
    IF n # 0 /\ plan[n].hints.dict_key \in DOMAIN v.m
    THEN LoadValue(field_type, v.m[plan[n].hints.dict_key], plan[n].hints)
    ELSE AbsentValue(f, field_type, n # 0)

LoadFields(params, fields, plan, v) ==
    [name \in {fields[i].name : i \in DOMAIN fields} |->
        LoadField(FieldNamed(fields, name),
                  resolve_type(params, FieldNamed(fields, name).type),
                  plan, PlanIndex(plan, name), v)]

\* a load that constructs the record from whatever loaded
Construct_Partial(type_name, loaded) == Inst(type_name, loaded)

\* step 5 of load: the record is constructed from the fields that loaded
Construct(type_name, loaded) ==
    IF \E name \in DOMAIN loaded : loaded[name] = Error THEN Error
    ELSE Inst(type_name, loaded)

LoadPlanned(params, plan, v) ==
    Construct(params.type_, LoadFields(params, DataclassFields(params.type_), plan, v))

\* steps 3 to 5 of load: read each key of the plan, then construct
LoadRecord(type_, only, exclude, v) ==
    IF v.j # "obj" THEN Error
    ELSE LoadPlanned(_DataClassParams(type_), FieldPlan(type_, only, exclude), v)

\* Serializer(dataclass, omit_none, only, exclude, strict): its builder sees
\* the hints the serializer has filled in; schema is what json_schema()
\* of the builder gives the validator
Serializer(dataclass, omit_none, only, exclude, strict) ==
    LET builder == SchemaBuilder(dataclass, only, exclude, EmptyMap, strict, 0, AllKeyed)
        built == _create_json_schema(builder, FALSE, FALSE, NewContext(1),
                                     [global_types |-> EmptyMap, keyed |-> AllKeyed],
                                     MaxDepth)
    IN [dataclass |-> dataclass, omit_none |-> omit_none, only |-> only,
        exclude |-> exclude, strict |-> strict, schema |-> built.schema]

\* Serializer.dump(obj, validate)
Validated(self, validate, data) ==
    IF validate /\ ~Validates(self.schema, data) THEN ValidationError ELSE data

dump(self, x, validate) ==
    Validated(self, validate,
              DumpRecord(self.dataclass, self.only, self.exclude, x, self.omit_none))

\* Serializer.load(data, validate)
load(self, v, validate) ==
    IF validate /\ ~Validates(self.schema, v) THEN ValidationError
    ELSE LoadRecord(self.dataclass, self.only, self.exclude, v)

\* dump / load with many=True
ManyOrRaised(out) ==
    IF \E i \in DOMAIN out : out[i] = ValidationError THEN ValidationError
    ELSE ArrOrError(out)

dump_many(self, xs, validate) ==
    ManyOrRaised([i \in DOMAIN xs |-> dump(self, xs[i], validate)])

load_many(self, v, validate) ==
    IF v.j # "arr" THEN Error
    ELSE ManyOrRaised([i \in DOMAIN v.a |-> load(self, v.a[i], validate)])

(***************************************************************************)
(* The inputs the model draws from.                                        *)
(***************************************************************************)
\* the dataclasses a builder is created for
RootTypes ==
    {DC(cls) : cls \in ClassNames \ {"Gen"}} \cup {DCG("Gen", <<IntT>>)}

\* the dataclasses a Serializer is created for
SerializerTypes ==
    {DC(cls) : cls \in {"Simple", "TreeNode", "Nested", "Parent", "OptionalCustom",
                        "WithVal", "Foo", "FooNoDefault", "Bar", "Desc", "Defaults",
                        "Node", "WithGen", "Holder", "Pair", "Keyed", "Views", "Ignore",
                        "Loose"}}
      \cup {DCG("Gen", <<IntT>>)}

\* sequences of at most n elements of S
RECURSIVE ListsOf(_, _)
ListsOf(S, n) ==
    IF n = 0 THEN {<<>>}
    ELSE LET shorter == ListsOf(S, n - 1)
         IN shorter \cup {Append(l, x) : l \in shorter, x \in S}

FieldNames(type_) ==
    {DataclassFields(type_.name)[i].name : i \in DOMAIN DataclassFields(type_.name)}

NoRepeat(l) == \A i, k \in DOMAIN l : i # k => l[i] # l[k]

\* the only / exclude pairs given to a root builder or serializer
Views(type_) ==
    {v \in ListsOf(FieldNames(type_), MaxView) \X ListsOf(FieldNames(type_), MaxView) :
        /\ Len(v[1]) + Len(v[2]) <= MaxView
        /\ NoRepeat(v[1])
        /\ NoRepeat(v[2])}

RECURSIVE ValuesOf(_, _), InstancesOf(_, _)

\* the Python values of a type, records nested at most depth deep
ValuesOf(t, depth) ==
    CASE t.k = "str" -> {StrV("s")}
      [] t.k = "int" -> {IntV(1)}
      [] t.k = "none" -> {Null}
      [] t.k = "union" -> UNION {ValuesOf(t.of[i], depth) : i \in DOMAIN t.of}
      [] t.k = "list" -> {Arr(<<>>)} \cup {Arr(<<e>>) : e \in ValuesOf(t.of[1], depth)}
      [] t.k = "dict" ->
            {Obj(EmptyMap)} \cup {Obj("k" :> e) : e \in ValuesOf(t.of[2], depth)}
      [] t.k = "tuple" ->
            {Arr(<<a, b>>) : a \in ValuesOf(t.of[1], depth), b \in ValuesOf(t.of[2], depth)}
      [] t.k = "newtype" -> ValuesOf(t.of[1], depth)
      [] t.k = "dc" -> InstancesOf(t, depth)
      [] OTHER -> {}

\* the functions that give each name one of its candidates
Choices(cands) ==
    {g \in [DOMAIN cands -> UNION {cands[name] : name \in DOMAIN cands}] :
        \A name \in DOMAIN cands : g[name] \in cands[name]}

\* the values a field can hold: those of its type, and its default
FieldValues(params, f, depth) ==
    ValuesOf(resolve_type(params, f.type), depth - 1)
      \cup (IF f.default # MISSING THEN {f.default} ELSE {})
      \cup (IF f.factory THEN {DefaultFactoryValue} ELSE {})

InstancesWith(params, fields, depth) ==
    {Inst(params.type_, f) :
        f \in Choices([name \in {fields[i].name : i \in DOMAIN fields} |->
                         FieldValues(params, FieldNamed(fields, name), depth)])}

InstancesOf(type_, depth) ==
    IF depth = 0 THEN {}
    ELSE InstancesWith(_DataClassParams(type_),
                       DataclassFields(_DataClassParams(type_).type_), depth)

\* the values load and validate are given: objects whose keys are field
\* names of the class, holding dumps of field values or a value of another
\* type
Absent == [j |-> "absent"]

\* what a key of the input can hold: a dump of a value of the field, a
\* value of another type, or nothing
Candidates(field_type, hints) ==
    {DumpValue(field_type, val, hints, FALSE) : val \in ValuesOf(field_type, MaxNest - 1)}
      \cup {Null, IntV(1), Absent}

\* the object holding, under the key of each field, what g gives the field
KeyedObject(keyOf, g) ==
    Obj([key \in {keyOf[name] : name \in {n \in DOMAIN g : g[n] # Absent}} |->
            g[CHOOSE name \in DOMAIN g : keyOf[name] = key]])

DataWith(keyOf, choices) == {KeyedObject(keyOf, g) : g \in choices}

DataFor(params, fields, hints) ==
    DataWith([name \in DOMAIN hints |-> hints[name].dict_key],
             Choices([name \in DOMAIN hints |->
                        Candidates(resolve_type(params, FieldNamed(fields, name).type),
                                   hints[name])]))

DataOf(type_) ==
    DataFor(_DataClassParams(type_),
            DataclassFields(_DataClassParams(type_).type_),
            [name \in FieldNames(type_) |->
                HintsOf(_DataClassParams(type_).type_,
                        FieldNamed(DataclassFields(_DataClassParams(type_).type_), name),
                        AllKeyed)])


(***************************************************************************)
(* State.                                                                  *)
(***************************************************************************)
VARIABLES
    builder,        \* the SchemaBuilder object the calls are made on
    keyed,          \* the hints objects whose dict_key a Serializer filled in
    global_types,   \* SchemaBuilder._global_types
    next_id,        \* identity given to the next builder object created
    calls,          \* number of calls made so far
    result,         \* the call made last and what it returned
    overflow,       \* a schema build went deeper than MaxDepth
    last_build,     \* parent_builders as the last schema build left it
    serializer,     \* the Serializer object the conversions are made with
    op,             \* the conversion made last
    obj,            \* the record(s) given to the last dump
    data,           \* the value the last dump returned or the last load was given
    loaded,         \* what the last load returned
    keys,           \* the keys default_get_definition_name was called with
    names,          \* the names it returned, in the same order
    pc,             \* where the conversion under way stands
    trace,          \* what the conversion under way has done so far, in order
    work,           \* the value the conversion under way is working on
    acc,            \* the keys dumped / the fields loaded so far
    validator,      \* the Validator object the validations are made with
    outcome,        \* what the last validation returned or raised
    failed,         \* a validation made before the last one raised
    before,         \* the registry before the last register_global_type
    last_reg,       \* the registry calls made last
    threads,        \* where each concurrent caller of the shared builder stands
    attempt,        \* the UnionFieldEncoder.load call under way
    mixin           \* the _serializer attribute of the SerializerMixin classes

vars == <<builder, keyed, global_types, next_id, calls, result, overflow, last_build,
          serializer, op, obj, data, loaded, keys, names,
          pc, trace, work, acc, validator, outcome, failed, before, last_reg,
          threads, attempt, mixin>>

builder_vars == <<builder, keyed, global_types, next_id, calls, result, overflow,
                  last_build>>
serializer_vars == <<serializer, op, obj, data, loaded>>
name_vars == <<keys, names>>
call_vars == <<pc, trace, work, acc>>
validator_vars == <<validator, outcome, failed>>
registry_vars == <<before, last_reg>>
side_vars == <<threads, attempt, mixin>>

\* the value of a variable a specification does not use
Unused == [j |-> "unused"]
NoResult == [call |-> "none"]
NoOp == [name |-> "none", validate |-> FALSE, many |-> FALSE]

\* no conversion is under way, no Validator is in use and no registry call
\* was made
Idle == [at |-> "idle", n |-> 0]
NoCalls ==
    /\ pc = Idle
    /\ trace = <<>>
    /\ work = Unused
    /\ acc = EmptyMap
NoValidation ==
    /\ validator = Unused
    /\ outcome = Unused
    /\ failed = FALSE
NoRegistryCalls ==
    /\ before = EmptyMap
    /\ last_reg = <<>>
\* no concurrent caller, no union load and no SerializerMixin class
NoSideCalls ==
    /\ threads = <<>>
    /\ attempt = Unused
    /\ mixin = Unused

(***************************************************************************)
(* Calls on one SchemaBuilder.                                             *)
(***************************************************************************)
Env == [global_types |-> global_types, keyed |-> keyed]

\* self._create_json_schema(many=many) called from a public method
Build(many) == _create_json_schema(builder, many, FALSE, NewContext(next_id), Env, MaxDepth)

\* the builder, counters and last build after a public method has rebuilt
\* the schema and stored it in the slot
Rebuilt(slot, built) ==
    /\ builder' = (IF slot = "_schema" THEN [built.self EXCEPT !._schema = built.schema]
                   ELSE [built.self EXCEPT !._many_schema = built.schema])
    /\ next_id' = built.ctx.next_id
    /\ overflow' = (overflow \/ built.ctx.overflow)
    /\ last_build' = built.ctx.parent_builders

\* SchemaBuilder.json_schema(many)
JsonSchema(many) ==
    /\ calls < MaxCalls
    /\ calls' = calls + 1
    /\ IF many
       THEN IF builder._schema = EmptySchema
            THEN Rebuilt("_schema", Build(many))
            ELSE UNCHANGED <<builder, next_id, overflow, last_build>>
       ELSE IF builder._many_schema = EmptySchema
            THEN Rebuilt("_many_schema", Build(many))
            ELSE UNCHANGED <<builder, next_id, overflow, last_build>>
    /\ result' = [call |-> "json_schema", many |-> many,
                  value |-> IF many THEN builder'._schema ELSE builder'._many_schema]
    /\ UNCHANGED <<keyed, global_types>>
    /\ UNCHANGED serializer_vars
    /\ UNCHANGED name_vars
    /\ UNCHANGED <<call_vars, validator_vars, registry_vars, side_vars>>

\* SchemaBuilder.nested_builders()
NestedBuilders ==
    /\ calls < MaxCalls
    /\ calls' = calls + 1
    /\ IF builder._nested_builders = {}
       THEN Rebuilt("_schema", Build(FALSE))
       ELSE UNCHANGED <<builder, next_id, overflow, last_build>>
    /\ result' = [call |-> "nested_builders", value |-> builder'._nested_builders]
    /\ UNCHANGED <<keyed, global_types>>
    /\ UNCHANGED serializer_vars
    /\ UNCHANGED name_vars
    /\ UNCHANGED <<call_vars, validator_vars, registry_vars, side_vars>>

\* SchemaBuilder.field_validators()
FieldValidators ==
    /\ calls < MaxCalls
    /\ calls' = calls + 1
    /\ result' = [call |-> "field_validators",
                  value |-> [i \in DOMAIN builder._field_validators |->
                               <<"#/" \o builder._field_validators[i][1],
                                 builder._field_validators[i][2]>>]]
    /\ UNCHANGED <<builder, keyed, global_types, next_id, overflow, last_build>>
    /\ UNCHANGED serializer_vars
    /\ UNCHANGED name_vars
    /\ UNCHANGED <<call_vars, validator_vars, registry_vars, side_vars>>

Init ==
    /\ \E t \in RootTypes, strict \in BOOLEAN, k \in {{}, AllKeyed} :
          \E v \in Views(t) :
             /\ keyed = k
             /\ builder = SchemaBuilder(t, v[1], v[2], EmptyMap, strict, 0, k)
    /\ global_types = EmptyMap
    /\ next_id = 1
    /\ calls = 0
    /\ result = NoResult
    /\ overflow = FALSE
    /\ last_build = <<>>
    /\ serializer = Unused
    /\ op = NoOp
    /\ obj = Unused
    /\ data = Unused
    /\ loaded = Unused
    /\ keys = <<>>
    /\ names = <<>>
    /\ NoCalls
    /\ NoValidation
    /\ NoRegistryCalls
    /\ NoSideCalls

Next ==
    \/ \E many \in BOOLEAN : JsonSchema(many)
    \/ NestedBuilders
    \/ FieldValidators

Spec == Init /\ [][Next]_vars

(***************************************************************************)
(* Conversions made with one Serializer.  The serializer keeps no state    *)
(* between calls: a behaviour is one conversion, and the load of what a    *)
(* dump returned.                                                          *)
(***************************************************************************)
\* Serializer.dump(x, validate=validate)
Dump(x, validate) ==
    /\ op.name = "none"
    /\ op' = [name |-> "dump", validate |-> validate, many |-> FALSE]
    /\ obj' = x
    /\ data' = dump(serializer, x, validate)
    /\ loaded' = Unused
    /\ UNCHANGED serializer
    /\ UNCHANGED builder_vars
    /\ UNCHANGED name_vars
    /\ UNCHANGED <<call_vars, validator_vars, registry_vars, side_vars>>

\* Serializer.dump(xs, many=True)
DumpMany(xs) ==
    /\ op.name = "none"
    /\ op' = [name |-> "dump", validate |-> FALSE, many |-> TRUE]
    /\ obj' = Arr(xs)
    /\ data' = dump_many(serializer, xs, FALSE)
    /\ loaded' = Unused
    /\ UNCHANGED serializer
    /\ UNCHANGED builder_vars
    /\ UNCHANGED name_vars
    /\ UNCHANGED <<call_vars, validator_vars, registry_vars, side_vars>>

\* Serializer.load(data, validate=validate, many=...) of what the last dump
\* returned
LoadDumped(validate) ==
    /\ op.name = "dump"
    /\ data # ValidationError
    /\ op' = [name |-> "load_dumped", validate |-> validate, many |-> op.many]
    /\ loaded' = IF op.many THEN load_many(serializer, data, validate)
                 ELSE load(serializer, data, validate)
    /\ UNCHANGED <<serializer, obj, data>>
    /\ UNCHANGED builder_vars
    /\ UNCHANGED name_vars
    /\ UNCHANGED <<call_vars, validator_vars, registry_vars, side_vars>>

\* Serializer.load(v, validate=validate) of a value from elsewhere
Load(v, validate) ==
    /\ op.name = "none"
    /\ op' = [name |-> "load", validate |-> validate, many |-> FALSE]
    /\ obj' = Unused
    /\ data' = v
    /\ loaded' = load(serializer, v, validate)
    /\ UNCHANGED serializer
    /\ UNCHANGED builder_vars
    /\ UNCHANGED name_vars
    /\ UNCHANGED <<call_vars, validator_vars, registry_vars, side_vars>>

InitSerializer ==
    /\ \E t \in SerializerTypes, omit_none \in BOOLEAN, strict \in BOOLEAN :
          \E v \in Views(t) :
             serializer = Serializer(t, omit_none, v[1], v[2], strict)
    /\ op = NoOp
    /\ obj = Unused
    /\ data = Unused
    /\ loaded = Unused
    /\ builder = Unused
    /\ keyed = AllKeyed
    /\ global_types = EmptyMap
    /\ next_id = 1
    /\ calls = 0
    /\ result = NoResult
    /\ overflow = FALSE
    /\ last_build = <<>>
    /\ keys = <<>>
    /\ names = <<>>
    /\ NoCalls
    /\ NoValidation
    /\ NoRegistryCalls
    /\ NoSideCalls

NextSerializer ==
    \/ /\ op.name = "none"
       /\ \E x \in InstancesOf(serializer.dataclass, MaxNest), validate \in BOOLEAN :
             Dump(x, validate)
    \/ /\ op.name = "none"
       /\ \E xs \in ListsOf(InstancesOf(serializer.dataclass, MaxNest), MaxMany) :
             DumpMany(xs)
    \/ \E validate \in BOOLEAN : LoadDumped(validate)
    \/ /\ op.name = "none"
       /\ \E v \in DataOf(serializer.dataclass), validate \in BOOLEAN : Load(v, validate)

SpecSerializer == InitSerializer /\ [][NextSerializer]_vars

(***************************************************************************)
(* Calls of default_get_definition_name.                                   *)
(***************************************************************************)
\* longest only / exclude list of a definition key
MaxNameList == 2

\* the keys (type, resolved arguments, only, exclude) of the definitions
DefinitionKeys ==
    {<<"Under", args, only, exclude>> :
        args \in {<<>>, <<IntT>>},
        only \in ListsOf({"a", "b", "a_b"}, MaxNameList),
        exclude \in ListsOf({"a", "b"}, MaxNameList - 1)}

GetDefinitionName(key) ==
    /\ keys' = (IF keys = <<>> THEN <<>> ELSE <<keys[Len(keys)]>>) \o <<key>>
    /\ names' = (IF names = <<>> THEN <<>> ELSE <<names[Len(names)]>>)
                   \o <<default_get_definition_name(key[1], key[2], key[3], key[4])>>
    /\ UNCHANGED builder_vars
    /\ UNCHANGED serializer_vars
    /\ UNCHANGED <<call_vars, validator_vars, registry_vars, side_vars>>

InitNames ==
    /\ keys = <<>>
    /\ names = <<>>
    /\ NoCalls
    /\ NoValidation
    /\ NoRegistryCalls
    /\ NoSideCalls
    /\ builder = Unused
    /\ keyed = {}
    /\ global_types = EmptyMap
    /\ next_id = 1
    /\ calls = 0
    /\ result = NoResult
    /\ overflow = FALSE
    /\ last_build = <<>>
    /\ serializer = Unused
    /\ op = NoOp
    /\ obj = Unused
    /\ data = Unused
    /\ loaded = Unused

NextNames == \E key \in DefinitionKeys : GetDefinitionName(key)

SpecNames == InitNames /\ [][NextNames]_vars


(***************************************************************************)
(* Properties of the schemas a SchemaBuilder returns.                      *)
(***************************************************************************)
RECURSIVE Refs(_)
\* the $ref strings of a field schema
Refs(schema) ==
    CASE schema.s = "ref" -> {schema.ref}
      [] schema.s = "anyOf" -> UNION {Refs(schema.anyOf[i]) : i \in DOMAIN schema.anyOf}
      [] schema.s = "object" -> Refs(schema.additionalProperties)
      [] schema.s = "array" -> Refs(schema.items)
      [] schema.s = "tuple" ->
            UNION {Refs(schema.tuple_items[i]) : i \in DOMAIN schema.tuple_items}
      [] OTHER -> {}

\* the $ref strings of a record schema
RecordRefs(record_schema) ==
    IF record_schema = NoneSchema THEN {}
    ELSE UNION {Refs(record_schema.properties[key].schema) :
                   key \in DOMAIN record_schema.properties}

RootRecord(top) == IF top.type = "array" THEN top.items ELSE top.record

\* the $ref strings of a top-level schema
AllRefs(top) ==
    RecordRefs(RootRecord(top))
      \cup UNION {RecordRefs(top.definitions[name]) : name \in DOMAIN top.definitions}

NameOfKey(key) == default_get_definition_name(key[1], key[2], key[3], key[4])

Range(seq) == {seq[i] : i \in DOMAIN seq}

\* the builder as it was constructed
Fresh(b) ==
    [b EXCEPT !._nested_builders = {}, !._field_validators = <<>>,
              !._schema = EmptySchema, !._many_schema = EmptySchema]

\* what json_schema(many) returns on a builder no call was made on
FreshSchema(b, many) ==
    _create_json_schema(Fresh(b), many, FALSE, NewContext(1), Env, MaxDepth).schema

\* C4: after any sequence of json_schema, nested_builders and
\* field_validators calls, json_schema(many) returns what it returns on a
\* builder no call was made on: an array schema whose items is the record
\* schema when many is true, the object schema when many is false.
C4_JsonSchemaIndependentOfCalls ==
    result.call = "json_schema" =>
        /\ result.value.type = (IF result.many THEN "array" ELSE "object")
        /\ result.value = FreshSchema(builder, result.many)

\* C5: a schema build terminates (it never nests deeper than MaxDepth
\* builders); no node of the type graph is descended into twice; every node
\* descended into has exactly one definition, holding a record schema; and
\* with an unrestricted root, a reference back to the root is "#" and the
\* root has no definition of its own.
C5_CycleSafety ==
    /\ ~overflow
    /\ result.call = "json_schema" =>
          LET defs == result.value.definitions
              root_name == NameOfKey(<<builder._dataclass.type_,
                                       builder._dataclass.arguments, <<>>, <<>>>>)
          IN /\ \A i, k \in DOMAIN last_build :
                   i # k => last_build[i].key # last_build[k].key
             /\ DOMAIN defs = {NameOfKey(last_build[i].key) : i \in 2..Len(last_build)}
             /\ \A name \in DOMAIN defs : defs[name] # NoneSchema
             /\ (builder._only = <<>> /\ builder._exclude = <<>>) =>
                   /\ root_name \notin DOMAIN defs
                   /\ ("#/definitions/" \o root_name) \notin AllRefs(result.value)

\* a mutual reference and a self reference through a sequence were built
C5_Witness ==
    /\ result.call = "json_schema"
    /\ builder._only = <<>>
    /\ builder._exclude = <<>>
    /\ \/ /\ builder._dataclass.type_ = "First"
          /\ "test_unit.Second" \in DOMAIN result.value.definitions
          /\ "#" \in RecordRefs(result.value.definitions["test_unit.Second"])
       \/ /\ builder._dataclass.type_ = "TreeNode"
          /\ "#" \in RecordRefs(RootRecord(result.value))

\* C6: in every schema json_schema returns, each $ref is "#" or
\* "#/definitions/N" with N a key of definitions that holds a record schema.
C6_RefsResolve ==
    result.call = "json_schema" =>
        \A ref \in AllRefs(result.value) :
            \/ ref = "#"
            \/ \E name \in DOMAIN result.value.definitions :
                  /\ ref = "#/definitions/" \o name
                  /\ result.value.definitions[name] # NoneSchema

\* the dataclasses among the root types of a field of a builder
NestedParams(b, vfield) ==
    LET types == _get_types(resolve_type(b._dataclass, vfield.field.type))
        resolved == {resolve_type(b._dataclass, types[i]) : i \in DOMAIN types}
    IN {_DataClassParams(t) : t \in {u \in resolved : _DataClassParams(u).ok}}

\* the keys of the fields of a view of a dataclass
ViewKeys(params, only, exclude, k) ==
    LET all == [i \in DOMAIN DataclassFields(params.type_) |->
                   _SchemaBuilderField(params.type_, DataclassFields(params.type_)[i], k)]
        kept == FilterFields(params.type_, all, only, exclude)
    IN {kept[i].hints.dict_key : i \in DOMAIN kept}

\* C9: for a nested record field of the root declared with only / exclude,
\* the field's $ref is "#" exactly when the nested key (type, arguments,
\* only, exclude) equals the root's, and otherwise targets the definition
\* named after that key, whose properties are exactly the fields of the view.
C9_NestedViewRef ==
    (result.call = "json_schema" /\ keyed = AllKeyed) =>
        \A i \in DOMAIN builder._fields :
            LET vfield == builder._fields[i]
                refs == Refs(RootRecord(result.value).properties[vfield.hints.dict_key].schema)
            IN \A params \in NestedParams(builder, vfield) :
                  LET key == <<params.type_, params.arguments,
                               vfield.hints.only, vfield.hints.exclude>>
                      name == NameOfKey(key)
                  IN IF key = BuilderKey(builder)
                     THEN "#" \in refs
                     ELSE /\ "#" \notin refs
                          /\ ("#/definitions/" \o name) \in refs
                          /\ name \in DOMAIN result.value.definitions
                          /\ DOMAIN result.value.definitions[name].properties
                               = ViewKeys(params, vfield.hints.only, vfield.hints.exclude,
                                          keyed)

\* the key of a field: its dict_key hint, the declared name without one
KeyOf(vfield) ==
    IF vfield.hints.dict_key = NoneKey THEN vfield.field.name ELSE vfield.hints.dict_key

\* required lists exactly the keys of the fields without default and factory
RequiredIffNoDefault(record_schema, fields) ==
    \A i \in DOMAIN fields :
        KeyOf(fields[i]) \in Range(record_schema.required)
          <=> (fields[i].field.default = MISSING /\ ~fields[i].field.factory)

\* C10: in the root record schema and in every definition, a field's key is
\* in required if and only if the field has neither a default value nor a
\* default factory.
C10_RequiredIffNoDefault ==
    result.call = "json_schema" =>
        /\ RequiredIffNoDefault(RootRecord(result.value), builder._fields)
        /\ \A i \in 2..Len(last_build) :
              LET entry == last_build[i]
                  all == [n \in DOMAIN DataclassFields(entry.dc.type_) |->
                             _SchemaBuilderField(entry.dc.type_,
                                                 DataclassFields(entry.dc.type_)[n], keyed)]
                  kept == FilterFields(entry.dc.type_, all, entry.key[3], entry.key[4])
              IN NameOfKey(entry.key) \in DOMAIN result.value.definitions =>
                    RequiredIffNoDefault(result.value.definitions[NameOfKey(entry.key)],
                                         kept)

\* the same with every hints object's dict_key filled in, as a Serializer
\* leaves them
C10_KeyedOnly == keyed = AllKeyed => C10_RequiredIffNoDefault


(***************************************************************************)
(* Properties of default_get_definition_name.                              *)
(***************************************************************************)
\* C7: the default definition name is injective: two distinct keys (type,
\* arguments, only, exclude) never get the same name.
C7_DefinitionNameInjective ==
    \A i, k \in DOMAIN keys : keys[i] # keys[k] => names[i] # names[k]

(***************************************************************************)
(* Properties of dump and load.                                            *)
(***************************************************************************)
RECURSIVE ClassesIn(_)
\* the dataclasses a type expression names
ClassesIn(t) ==
    (IF t.k = "dc" THEN {t.name} ELSE {})
      \cup UNION {ClassesIn(t.of[i]) : i \in DOMAIN t.of}

RECURSIVE Reach(_, _)
\* the dataclasses reached from those of S through at most n fields
Reach(S, n) ==
    IF n = 0 THEN S
    ELSE Reach(S \cup UNION {UNION {ClassesIn(DataclassFields(cls)[i].type) :
                                       i \in DOMAIN DataclassFields(cls)} : cls \in S},
               n - 1)

ClassesOf(type_) == Reach(ClassesIn(type_), MaxDepth)

DeclaredHints(cls, i) == HintsOf(cls, DataclassFields(cls)[i], AllKeyed)

\* no class of the record declares an ignored field
NoIgnoredField(type_) ==
    \A cls \in ClassesOf(type_) :
        \A i \in DOMAIN DataclassFields(cls) : ~DeclaredHints(cls, i).ignore

\* no only / exclude, on the serializer or on a nested field
NoView(self) ==
    /\ self.only = <<>>
    /\ self.exclude = <<>>
    /\ \A cls \in ClassesOf(self.dataclass) :
          \A i \in DOMAIN DataclassFields(cls) :
              /\ DeclaredHints(cls, i).only = <<>>
              /\ DeclaredHints(cls, i).exclude = <<>>

RECURSIVE NullsHaveNullDefault(_)
\* every Optional field holding null has null as its default
NullsHaveNullDefault(v) ==
    CASE v.j = "inst" ->
            \A i \in DOMAIN DataclassFields(v.cls) :
                LET f == DataclassFields(v.cls)[i]
                IN /\ (_is_optional(f.type) /\ v.f[f.name] = Null)
                        => (f.default = Null /\ ~f.factory)
                   /\ NullsHaveNullDefault(v.f[f.name])
      [] v.j = "arr" -> \A i \in DOMAIN v.a : NullsHaveNullDefault(v.a[i])
      [] v.j = "obj" -> \A key \in DOMAIN v.m : NullsHaveNullDefault(v.m[key])
      [] OTHER -> TRUE

C2_DumpValidates ==
    (op.name = "dump" /\ op.validate) => data # ValidationError

\* the fields of the serializer's class its view omits
Omitted(self) ==
    LET cls == _DataClassParams(self.dataclass).type_
    IN {i \in DOMAIN DataclassFields(cls) :
           \/ DeclaredHints(cls, i).ignore
           \/ (self.only # <<>> /\ DataclassFields(cls)[i].name \notin Range(self.only))
           \/ DataclassFields(cls)[i].name \in Range(self.exclude)}

RECURSIVE OmittedHaveDefaults(_, _, _, _)
\* every field a view omits, at the root or in a nested record, has a
\* default value or a default factory
OmittedHaveDefaults(type_, only, exclude, depth) ==
    LET cls == _DataClassParams(type_).type_
        fields == DataclassFields(cls)
        out(i) == \/ DeclaredHints(cls, i).ignore
                  \/ (only # <<>> /\ fields[i].name \notin Range(only))
                  \/ fields[i].name \in Range(exclude)
    IN \A i \in DOMAIN fields :
          IF out(i) THEN fields[i].default # MISSING \/ fields[i].factory
          ELSE depth = 0
                 \/ \A name \in ClassesIn(fields[i].type) :
                       OmittedHaveDefaults(DC(name), DeclaredHints(cls, i).only,
                                           DeclaredHints(cls, i).exclude, depth - 1)

\* C3 as stated: a value that passes validation against the serializer's
\* schema loads into a record, whatever the view.
C3_ValidLoadsAsStated ==
    (/\ op.name \in {"load", "load_dumped"}
     /\ ~op.many
     /\ Validates(serializer.schema, data))
        => loaded \notin {Error, ValidationError}

\* C3: a value that passes validation against the serializer's schema loads
\* into a record, for every view whose omitted fields (ignored, outside
\* only, excluded; at the root or in a nested record) all have a default
\* value or a default factory.
C3_ValidLoads ==
    (/\ op.name \in {"load", "load_dumped"}
     /\ ~op.many
     /\ Validates(serializer.schema, data)
     /\ OmittedHaveDefaults(serializer.dataclass, serializer.only, serializer.exclude,
                            MaxDepth))
        => loaded \notin {Error, ValidationError}

\* a valid value was loaded through a view that omits a field with a default
C3_Witness ==
    /\ op.name = "load"
    /\ serializer.dataclass = DC("Foo")
    /\ serializer.exclude = <<"description">>
    /\ Validates(serializer.schema, data)
    /\ loaded.j = "inst"

\* C8: a field of the serializer's class that is ignored, outside a
\* non-empty only, or in exclude (also when only names it) has its key
\* neither in properties nor in required of the schema, nor in what dump
\* returns.
C8_OmittedFieldsAbsent ==
    serializer # Unused =>
        LET cls == _DataClassParams(serializer.dataclass).type_
            root == RootRecord(serializer.schema)
            out == {DeclaredHints(cls, i).dict_key : i \in Omitted(serializer)}
            dumped == IF op.name # "dump" \/ data = ValidationError THEN {}
                      ELSE IF op.many THEN Range(data.a) ELSE {data}
        IN /\ out \cap DOMAIN root.properties = {}
           /\ out \cap Range(root.required) = {}
           /\ \A d \in dumped : out \cap DOMAIN d.m = {}

\* a record was dumped through a view naming one field in only and exclude
C8_Witness ==
    /\ op.name = "dump"
    /\ ~op.many
    /\ data # ValidationError
    /\ Range(serializer.only) \cap Range(serializer.exclude) # {}
    /\ Omitted(serializer) # {}
    /\ obj.cls = "Nested"


(***************************************************************************)
(* Keys of the fields in an emitted schema.                                *)
(***************************************************************************)
\* the keys of a record schema are those of the kept fields: the dict_key
\* hint when one is given, the declared name otherwise
KeyedByDictKeyOrName(record_schema, fields) ==
    /\ DOMAIN record_schema.properties = {KeyOf(fields[i]) : i \in DOMAIN fields}
    /\ Range(record_schema.required) \subseteq {KeyOf(fields[i]) : i \in DOMAIN fields}

\* C11: every field kept in the view is keyed, in properties and in
\* required, by its dict_key hint when one is given and by its declared
\* name otherwise, also when it carries other hints and when the
\* SchemaBuilder is used without a Serializer.
C11_KeyedByDictKeyOrName ==
    result.call = "json_schema" =>
        KeyedByDictKeyOrName(RootRecord(result.value), builder._fields)


(***************************************************************************)
(* serpyco/decorator.py: the hooks of a dataclass.                         *)
(***************************************************************************)
DecoratorType == {"pre_dump", "post_dump", "pre_load", "post_load"}

\* a callable, before any decorator has tagged it
Method(name) == [name |-> name, tag |-> "<no tag>"]

\* each decorator sets __serpyco_tags__ on the callable and returns it
pre_dump(method) == [method EXCEPT !.tag = "pre_dump"]
post_load(method) == [method EXCEPT !.tag = "post_load"]
\* a pre_load that tags the callable as a post_dump hook
pre_load_TaggedPostDump(method) == [method EXCEPT !.tag = "post_dump"]
pre_load(method) == [method EXCEPT !.tag = "pre_load"]
post_dump(method) == [method EXCEPT !.tag = "post_dump"]

\* the decorated methods a class declares, in declaration order
Declared(decorator, name) == [decorator |-> decorator, name |-> name]

Methods(cls) ==
    CASE cls = "Decorated" ->
            <<Declared("pre_dump", "add_two_to_bar"),
              Declared("post_dump", "del_foo_key"),
              Declared("pre_load", "add_foo_if_missing"),
              Declared("post_load", "substract_two_from_bar")>>
      [] cls = "Audited" ->
            <<Declared("pre_dump", "first_pre_dump"),
              Declared("post_load", "first_post_load"),
              Declared("pre_load", "first_pre_load"),
              Declared("post_dump", "first_post_dump"),
              Declared("pre_load", "second_pre_load"),
              Declared("post_dump", "second_post_dump"),
              Declared("pre_dump", "second_pre_dump"),
              Declared("post_load", "second_post_load")>>
      [] OTHER -> <<>>

\* the callable a declaration leaves in the class
Decorate(d) ==
    CASE d.decorator = "pre_dump" -> pre_dump(Method(d.name))
      [] d.decorator = "post_dump" -> post_dump(Method(d.name))
      [] d.decorator = "pre_load" -> pre_load(Method(d.name))
      [] d.decorator = "post_load" -> post_load(Method(d.name))

\* what the hooks of the test classes do to the value they are given; Error
\* when the hook raises
ApplyHook(name, value) ==
    CASE name = "add_two_to_bar" ->
            IF value.f.bar.j = "int" THEN [value EXCEPT !.f.bar = IntV(@.i + 2)] ELSE Error
      [] name = "substract_two_from_bar" ->
            IF value.f.bar.j = "int" THEN [value EXCEPT !.f.bar = IntV(@.i - 2)] ELSE Error
      [] name = "del_foo_key" ->
            Obj([key \in DOMAIN value.m \ {"foo"} |-> value.m[key]])
      [] name = "add_foo_if_missing" ->
            IF value.j = "obj" /\ "foo" \notin DOMAIN value.m
            THEN Obj(value.m @@ ("foo" :> StrV("default")))
            ELSE value
      [] OTHER -> value

(***************************************************************************)
(* One conversion of a Serializer, step by step: hooks, fields,            *)
(* validation, field validators.                                           *)
(***************************************************************************)
\* the hooks of a kind: the methods tagged with it, in declaration order
Tagged(methods, kind) == SelectSeq(methods, LAMBDA m : m.tag = kind)

HooksOf(cls, kind) == Tagged([i \in DOMAIN Methods(cls) |-> Decorate(Methods(cls)[i])], kind)

\* the builder of a serializer once it has built its schema
BuilderOf(self) ==
    _create_json_schema(SchemaBuilder(self.dataclass, self.only, self.exclude, EmptyMap,
                                      self.strict, 0, AllKeyed),
                        FALSE, FALSE, NewContext(1),
                        [global_types |-> EmptyMap, keyed |-> AllKeyed], MaxDepth).self

\* SchemaBuilder.field_validators()
field_validators(self) ==
    [i \in DOMAIN self._field_validators |->
        <<"#/" \o self._field_validators[i][1], self._field_validators[i][2]>>]

\* the components a path is made of
PathNames ==
    {"#", "*"} \cup UNION {{DataclassFields(cls)[i].name : i \in DOMAIN DataclassFields(cls)} :
                              cls \in CallClassNames \cup {"WithVal"}}

MaxPath == 4

\* path.split("/"): the components that joined with "/" give the path
Split(path) == CHOOSE cs \in ListsOf(PathNames, MaxPath) : Join(cs, "/") = path

\* util._get_values: the values a path leads to, in the order the
\* generator yields them, and whether it ended on a KeyError
RECURSIVE _get_values(_, _), EachValue(_, _, _)

Yielded(values) == [values |-> values, key_error |-> FALSE]
KeyError(values) == [values |-> values, key_error |-> TRUE]

\* what has been yielded when one element has been walked
Then(first, components, tree, n) ==
    IF first.key_error THEN first
    ELSE [values |-> first.values \o EachValue(components, tree, n + 1).values,
          key_error |-> EachValue(components, tree, n + 1).key_error]

EachValue(components, tree, n) ==
    IF n > Len(tree.a) THEN Yielded(<<>>)
    ELSE Then(_get_values(components, tree.a[n]), components, tree, n)

_get_values(components, tree) ==
    IF components = <<>> THEN Yielded(<<tree>>)
    ELSE IF tree.j = "obj"
         THEN IF components[1] \in DOMAIN tree.m
              THEN _get_values(Tail(components), tree.m[components[1]])
              ELSE KeyError(<<>>)
    ELSE IF tree.j = "arr" /\ components[1] = "*"
         THEN EachValue(Tail(components), tree, 1)
    ELSE Yielded(<<>>)

\* the kind of hooks a phase of the conversion runs
HookKind(name, at) == at \o "_" \o name

\* an entry of the trace
Event(e, kind, name, value) == [e |-> e, kind |-> kind, name |-> name, value |-> value]

CallTypes == {DC(cls) : cls \in (CallClassNames \ {"FooV"}) \cup {"WithVal"}}

PlanOf(self) == FieldPlan(self.dataclass, self.only, self.exclude)

\* Serializer.dump(x, validate=validate) is called
CallDump(x, validate) ==
    /\ pc = Idle
    /\ op' = [name |-> "dump", validate |-> validate, many |-> FALSE]
    /\ obj' = x
    /\ pc' = [at |-> "pre", n |-> 1]
    /\ work' = x
    /\ acc' = EmptyMap
    /\ trace' = <<>>
    /\ UNCHANGED <<serializer, data, loaded>>
    /\ UNCHANGED <<builder_vars, name_vars, validator_vars, registry_vars, side_vars>>

\* Serializer.load(v, validate=validate) is called
CallLoad(v, validate) ==
    /\ pc = Idle
    /\ op' = [name |-> "load", validate |-> validate, many |-> FALSE]
    /\ data' = v
    /\ pc' = [at |-> "pre", n |-> 1]
    /\ work' = v
    /\ acc' = EmptyMap
    /\ trace' = <<>>
    /\ UNCHANGED <<serializer, obj, loaded>>
    /\ UNCHANGED <<builder_vars, name_vars, validator_vars, registry_vars, side_vars>>

\* the next hook of the phase runs on the value
RunHookOf(hooks) ==
    /\ pc.n <= Len(hooks)
    /\ work' = ApplyHook(hooks[pc.n].name, work)
    /\ trace' = Append(trace, Event("hook", HookKind(op.name, pc.at), hooks[pc.n].name, work))
    /\ pc' = (IF work' = Error THEN [at |-> "raised", n |-> 1] ELSE [pc EXCEPT !.n = @ + 1])

RunHook ==
    /\ pc.at \in {"pre", "post"}
    /\ RunHookOf(HooksOf(serializer.dataclass.name, HookKind(op.name, pc.at)))
    /\ UNCHANGED <<acc, serializer_vars>>
    /\ UNCHANGED <<builder_vars, name_vars, validator_vars, registry_vars, side_vars>>

\* a conversion that never validates
AfterHooks_NoValidation(name, validate, at) == IF at = "pre" THEN "fields" ELSE "done"

\* what follows the hooks of a phase: load validates after its pre_load
\* hooks, dump after its post_dump hooks
AfterHooks(name, validate, at) ==
    IF at = "pre"
    THEN (IF name = "load" /\ validate THEN "validate" ELSE "fields")
    ELSE (IF name = "dump" /\ validate THEN "validate" ELSE "done")

\* the hooks of the phase have all run
HooksDone ==
    /\ pc.at \in {"pre", "post"}
    /\ pc.n > Len(HooksOf(serializer.dataclass.name, HookKind(op.name, pc.at)))
    /\ pc' = [at |-> AfterHooks(op.name, op.validate, pc.at), n |-> 1]
    /\ UNCHANGED <<trace, work, acc, serializer_vars>>
    /\ UNCHANGED <<builder_vars, name_vars, validator_vars, registry_vars, side_vars>>

\* dump writes the key of the next field of the plan
DumpFieldStep(params, plan) ==
    /\ pc.n <= Len(plan)
    /\ acc' = DumpField(plan[pc.n], resolve_type(params, plan[pc.n].field.type), work,
                        serializer.omit_none, acc)
    /\ trace' = Append(trace, Event("field", "dump", plan[pc.n].field.name, work))

\* load reads the key of the next field of the class
LoadFieldStep(params, fields, plan) ==
    /\ pc.n <= Len(fields)
    /\ acc' = acc @@ (fields[pc.n].name :>
                         LoadField(fields[pc.n], resolve_type(params, fields[pc.n].type),
                                   plan, PlanIndex(plan, fields[pc.n].name), work))
    /\ trace' = Append(trace, Event("field", "load", fields[pc.n].name, work))

FieldStep ==
    /\ pc.at = "fields"
    /\ work.j = (IF op.name = "dump" THEN "inst" ELSE "obj")
    /\ IF op.name = "dump"
       THEN DumpFieldStep(_DataClassParams(serializer.dataclass), PlanOf(serializer))
       ELSE LoadFieldStep(_DataClassParams(serializer.dataclass),
                          DataclassFields(serializer.dataclass.name), PlanOf(serializer))
    /\ pc' = [pc EXCEPT !.n = @ + 1]
    /\ UNCHANGED <<work, serializer_vars>>
    /\ UNCHANGED <<builder_vars, name_vars, validator_vars, registry_vars, side_vars>>

\* every field is done: dump has its object, load constructs the record
FieldsDone ==
    /\ pc.at = "fields"
    /\ \/ work.j # (IF op.name = "dump" THEN "inst" ELSE "obj")
       \/ pc.n > (IF op.name = "dump" THEN Len(PlanOf(serializer))
                  ELSE Len(DataclassFields(serializer.dataclass.name)))
    /\ IF op.name = "dump"
       THEN /\ work' = Obj(acc)
            /\ pc' = [at |-> "post", n |-> 1]
            /\ UNCHANGED trace
       ELSE /\ work' = (IF work.j # "obj" THEN Error
                        ELSE Construct(serializer.dataclass.name, acc))
            /\ pc' = [at |-> IF work' = Error THEN "raised" ELSE "post", n |-> 1]
            /\ trace' = (IF work' = Error THEN trace
                         ELSE Append(trace, Event("construct", "load",
                                                  serializer.dataclass.name, work')))
    /\ UNCHANGED <<acc, serializer_vars>>
    /\ UNCHANGED <<builder_vars, name_vars, validator_vars, registry_vars, side_vars>>

\* the value is validated against the schema of the serializer
ValidateStep ==
    /\ pc.at = "validate"
    /\ trace' = Append(trace, Event("validate", op.name,
                                    IF Validates(serializer.schema, work)
                                    THEN "ok" ELSE "ValidationError", work))
    /\ pc' = [at |-> IF Validates(serializer.schema, work) THEN "predicates" ELSE "raised",
              n |-> 1]
    /\ UNCHANGED <<work, acc, serializer_vars>>
    /\ UNCHANGED <<builder_vars, name_vars, validator_vars, registry_vars, side_vars>>

\* the next field validator is given the values its path leads to
PredicateOn(path, predicate, found) ==
    trace' = trace \o [i \in DOMAIN found.values |->
                          Event("predicate", path, predicate, found.values[i])]

PredicateStepOf(validators) ==
    /\ pc.n <= Len(validators)
    /\ PredicateOn(validators[pc.n][1], validators[pc.n][2],
                   _get_values(Tail(Split(validators[pc.n][1])), work))
    /\ pc' = [pc EXCEPT !.n = @ + 1]

PredicateStep ==
    /\ pc.at = "predicates"
    /\ PredicateStepOf(field_validators(BuilderOf(serializer)))
    /\ UNCHANGED <<work, acc, serializer_vars>>
    /\ UNCHANGED <<builder_vars, name_vars, validator_vars, registry_vars, side_vars>>

\* every field validator is done
PredicatesDone ==
    /\ pc.at = "predicates"
    /\ pc.n > Len(field_validators(BuilderOf(serializer)))
    /\ pc' = [at |-> IF op.name = "load" THEN "fields" ELSE "done", n |-> 1]
    /\ UNCHANGED <<trace, work, acc, serializer_vars>>
    /\ UNCHANGED <<builder_vars, name_vars, validator_vars, registry_vars, side_vars>>

InitCalls ==
    /\ \E t \in CallTypes, omit_none \in BOOLEAN, strict \in BOOLEAN :
          serializer = Serializer(t, omit_none, <<>>, <<>>, strict)
    /\ op = NoOp
    /\ obj = Unused
    /\ data = Unused
    /\ loaded = Unused
    /\ builder = Unused
    /\ keyed = AllKeyed
    /\ global_types = EmptyMap
    /\ next_id = 1
    /\ calls = 0
    /\ result = NoResult
    /\ overflow = FALSE
    /\ last_build = <<>>
    /\ keys = <<>>
    /\ names = <<>>
    /\ NoCalls
    /\ NoValidation
    /\ NoRegistryCalls
    /\ NoSideCalls

NextCalls ==
    \/ /\ pc = Idle
       /\ \E x \in InstancesOf(serializer.dataclass, MaxNest), validate \in BOOLEAN :
             CallDump(x, validate)
    \/ /\ pc = Idle
       /\ \E v \in DataOf(serializer.dataclass), validate \in BOOLEAN : CallLoad(v, validate)
    \/ RunHook
    \/ HooksDone
    \/ FieldStep
    \/ FieldsDone
    \/ ValidateStep
    \/ PredicateStep
    \/ PredicatesDone

SpecCalls == InitCalls /\ [][NextCalls]_vars


(***************************************************************************)
(* Properties of one conversion.                                           *)
(***************************************************************************)
\* the names a class declares under a decorator, in declaration order
DeclaredNames(cls, kind) ==
    LET ds == SelectSeq(Methods(cls), LAMBDA d : d.decorator = kind)
    IN [i \in DOMAIN ds |-> ds[i].name]

\* the names of the hooks of a kind that a sequence of events ran
HookNamesIn(events, kind) ==
    LET hs == SelectSeq(events, LAMBDA ev : ev.e = "hook" /\ ev.kind = kind)
    IN [i \in DOMAIN hs |-> hs[i].name]

IsPrefix(a, b) == Len(a) <= Len(b) /\ a = SubSeq(b, 1, Len(a))

\* the events of the trace before the i-th and after it
Before(i) == SubSeq(trace, 1, i - 1)
After(i) == SubSeq(trace, i + 1, Len(trace))

Has(events, e) == \E i \in DOMAIN events : events[i].e = e

\* C12: pre_dump hooks all run, in declaration order, before any field is
\* dumped and post_dump hooks after the last one; pre_load hooks all run
\* before any field is loaded and post_load hooks after the record is
\* constructed; a hook only runs as the kind its decorator names.
C12_HookOrdering ==
    LET cls == serializer.dataclass.name
    IN /\ \A i \in DOMAIN trace :
            trace[i].e = "hook" =>
               /\ Declared(trace[i].kind, trace[i].name) \in Range(Methods(cls))
               /\ trace[i].kind = "pre_dump" => ~Has(Before(i), "field")
               /\ trace[i].kind = "post_dump" =>
                     /\ ~Has(After(i), "field")
                     /\ Len(SelectSeq(Before(i), LAMBDA ev : ev.e = "field"))
                          = Len(PlanOf(serializer))
               /\ trace[i].kind = "pre_load" =>
                     ~Has(Before(i), "field") /\ ~Has(Before(i), "construct")
               /\ trace[i].kind = "post_load" =>
                     Has(Before(i), "construct") /\ ~Has(After(i), "field")
       /\ \A kind \in DecoratorType :
            IsPrefix(HookNamesIn(trace, kind), DeclaredNames(cls, kind))
       /\ \A i \in DOMAIN trace :
            trace[i].e = "field" =>
               HookNamesIn(Before(i), HookKind(op.name, "pre"))
                  = DeclaredNames(cls, HookKind(op.name, "pre"))
       /\ pc.at = "done" =>
            HookNamesIn(trace, HookKind(op.name, "post"))
               = DeclaredNames(cls, HookKind(op.name, "post"))

\* a load of a class with two hooks of each kind has run to its end
C12_Witness ==
    /\ serializer.dataclass.name = "Audited"
    /\ op.name = "load"
    /\ pc.at = "done"
    /\ HookNamesIn(trace, "pre_load") = <<"first_pre_load", "second_pre_load">>
    /\ HookNamesIn(trace, "post_load") = <<"first_post_load", "second_post_load">>

\* the value the hooks of a kind make of a value
RECURSIVE ApplyAll(_, _)
ApplyAll(hook_names, value) ==
    IF hook_names = <<>> THEN value
    ELSE ApplyAll(Tail(hook_names), ApplyHook(hook_names[1], value))

\* C13: load with validate=true validates the value the pre_load hooks
\* return, before any field is loaded or any record constructed, and when
\* validation fails nothing else happens; dump with validate=true validates
\* the value the post_dump hooks return.
C13_ValidatePosition ==
    LET cls == serializer.dataclass.name
    IN /\ \A i \in DOMAIN trace :
            trace[i].e = "validate" =>
               IF op.name = "load"
               THEN /\ HookNamesIn(Before(i), "pre_load") = DeclaredNames(cls, "pre_load")
                    /\ ~Has(Before(i), "field")
                    /\ ~Has(Before(i), "construct")
                    /\ trace[i].value = ApplyAll(DeclaredNames(cls, "pre_load"), data)
                    /\ trace[i].name = "ValidationError" =>
                          After(i) = <<>> /\ pc.at = "raised"
               ELSE /\ HookNamesIn(Before(i), "post_dump") = DeclaredNames(cls, "post_dump")
                    /\ ~Has(After(i), "hook")
                    /\ ~Has(After(i), "field")
                    /\ trace[i].value = work
       /\ \A i \in DOMAIN trace :
            (op.validate /\ op.name = "load" /\ trace[i].e \in {"field", "construct"}) =>
                \E k \in 1..(i - 1) : trace[k].e = "validate" /\ trace[k].name = "ok"
       /\ (op.validate /\ op.name = "dump" /\ pc.at = "done") =>
            \E k \in DOMAIN trace : trace[k].e = "validate" /\ trace[k].name = "ok"

\* a load whose pre_load hook has changed the value and whose validation
\* has failed
C13_Witness ==
    /\ serializer.dataclass.name = "Decorated"
    /\ op.name = "load"
    /\ pc.at = "raised"
    /\ trace # <<>>
    /\ trace[Len(trace)].e = "validate"
    /\ trace[Len(trace)].name = "ValidationError"
    /\ trace[Len(trace)].value # data

\* the key of the field a class declares under a name
FieldKey(cls, name) ==
    KeyOf([field |-> FieldNamed(DataclassFields(cls), name),
           hints |-> HintsOf(cls, FieldNamed(DataclassFields(cls), name), AllKeyed)])

\* C20: a field validator is invoked only after the structural validation
\* of the whole value has succeeded, and not at all when the key of its
\* field is absent from the value.
C20_PredicatesAfterStructure ==
    \A i \in DOMAIN trace :
        trace[i].e = "predicate" =>
           /\ \E k \in 1..(i - 1) : trace[k].e = "validate" /\ trace[k].name = "ok"
           /\ \A k \in DOMAIN trace :
                 trace[k].e = "validate" =>
                    FieldKey(serializer.dataclass.name, Split(trace[i].kind)[2])
                       \in DOMAIN trace[k].value.m

\* the same for the classes whose fields are all keyed by their names
C20_NamedKeysOnly == serializer.dataclass.name # "Swap" => C20_PredicatesAfterStructure


(***************************************************************************)
(* The global encoder registry (SchemaBuilder._global_types) and the       *)
(* builders constructed and used while it changes.                         *)
(***************************************************************************)
\* the encoders of the tests: json_schema() returns {} or a number schema
Encoder == FieldEncoder("Encoder", AnyS)
NumberEncoder == FieldEncoder("NumberEncoder", TypeS("number"))
Encoders == {Encoder, NumberEncoder}

\* the types encoders are registered for
RegistryTypes == {StrT, IntT}

\* the type_encoders a builder is constructed with
ScopedEncoders == {EmptyMap, IntT :> NumberEncoder, StrT :> NumberEncoder}

\* a registry call that raised nothing / that raised KeyError
Returned(call) == [call |-> call, raised |-> "nothing"]
Raised(call, exception) == [call |-> call, raised |-> exception]

\* cls._global_types[type_] = encoder
With(registry, type_, encoder) == (type_ :> encoder) @@ registry

\* a del that deletes nothing
Without_Nothing(registry, type_) == registry

\* del cls._global_types[type_]
Without(registry, type_) == [t \in DOMAIN registry \ {type_} |-> registry[t]]

\* SchemaBuilder.register_global_type(type_, encoder)
RegisterGlobalType(type_, encoder) ==
    /\ calls < MaxCalls
    /\ calls' = calls + 1
    /\ global_types' = With(global_types, type_, encoder)
    /\ before' = global_types
    /\ last_reg' = <<[call |-> "register_global_type", type_ |-> type_]>>
    /\ result' = Returned("register_global_type")
    /\ UNCHANGED <<builder, keyed, next_id, overflow, last_build>>
    /\ UNCHANGED <<serializer_vars, name_vars, call_vars, validator_vars, side_vars>>

\* SchemaBuilder.unregister_global_type(type_): del raises KeyError when the
\* type is not registered
UnregisterGlobalType(type_) ==
    /\ calls < MaxCalls
    /\ calls' = calls + 1
    /\ IF type_ \in DOMAIN global_types
       THEN /\ global_types' = Without(global_types, type_)
            /\ last_reg' = IF last_reg = <<>> THEN <<>>
                           ELSE Append(last_reg, [call |-> "unregister_global_type",
                                                  type_ |-> type_])
            /\ result' = Returned("unregister_global_type")
       ELSE /\ result' = Raised("unregister_global_type", "KeyError")
            /\ UNCHANGED <<global_types, last_reg>>
    /\ UNCHANGED <<builder, keyed, next_id, overflow, last_build, before>>
    /\ UNCHANGED <<serializer_vars, name_vars, call_vars, validator_vars, side_vars>>

\* SchemaBuilder(dataclass, type_encoders=...): another builder is
\* constructed and the calls go to it from now on
NewBuilder(cls, type_encoders) ==
    /\ calls < MaxCalls
    /\ calls' = calls + 1
    /\ builder' = SchemaBuilder(DC(cls), <<>>, <<>>, type_encoders, FALSE, next_id, keyed)
    /\ next_id' = next_id + 1
    /\ result' = Returned("SchemaBuilder")
    /\ UNCHANGED <<keyed, global_types, overflow, last_build>>
    /\ UNCHANGED <<serializer_vars, name_vars, call_vars, validator_vars, registry_vars, side_vars>>

InitRegistry ==
    /\ \E cls \in RegistryClassNames, type_encoders \in ScopedEncoders :
          builder = SchemaBuilder(DC(cls), <<>>, <<>>, type_encoders, FALSE, 0, AllKeyed)
    /\ keyed = AllKeyed
    /\ global_types = EmptyMap
    /\ next_id = 1
    /\ calls = 0
    /\ result = NoResult
    /\ overflow = FALSE
    /\ last_build = <<>>
    /\ serializer = Unused
    /\ op = NoOp
    /\ obj = Unused
    /\ data = Unused
    /\ loaded = Unused
    /\ keys = <<>>
    /\ names = <<>>
    /\ NoCalls
    /\ NoValidation
    /\ NoRegistryCalls
    /\ NoSideCalls

NextRegistry ==
    \/ \E type_ \in RegistryTypes, encoder \in Encoders : RegisterGlobalType(type_, encoder)
    \/ \E type_ \in RegistryTypes : UnregisterGlobalType(type_)
    \/ \E cls \in RegistryClassNames, type_encoders \in ScopedEncoders :
          NewBuilder(cls, type_encoders)
    \/ \E many \in BOOLEAN : JsonSchema(many)

SpecRegistry == InitRegistry /\ [][NextRegistry]_vars


\* what json_schema(many) returns on a builder constructed like b and used
\* at once, under a registry
SchemaUnder(b, many, registry) ==
    _create_json_schema(Fresh(b), many, FALSE, NewContext(1),
                        [global_types |-> registry, keyed |-> keyed], MaxDepth).schema

\* the builders that can be constructed
BuildersNow ==
    {SchemaBuilder(DC(cls), <<>>, <<>>, type_encoders, FALSE, 0, keyed) :
        cls \in RegistryClassNames, type_encoders \in ScopedEncoders}

\* the fields of type type_ of a builder without an encoder of its own for
\* the type are described by the schema the encoder gives
UsesFor(b, type_, encoder, record_schema) ==
    \A i \in DOMAIN b._fields :
        (b._fields[i].field.type = type_ /\ type_ \notin DOMAIN b._types) =>
            record_schema.properties[b._fields[i].hints.dict_key].schema = encoder.schema

\* the last registry calls are register_global_type(T, e) and, when undone
\* is true, a following unregister_global_type(T)
Registered(undone) ==
    /\ Len(last_reg) = (IF undone THEN 2 ELSE 1)
    /\ undone => last_reg[2].type_ = last_reg[1].type_

\* a builder built now uses the encoder registered last
UsesRegistered ==
    Registered(FALSE) =>
        \A b \in BuildersNow :
            UsesFor(b, last_reg[1].type_, global_types[last_reg[1].type_],
                    RootRecord(SchemaUnder(b, FALSE, global_types)))

\* the registry, and the schema of a builder built now, are those from
\* before the registration
Restored ==
    /\ global_types = before
    /\ \A b \in BuildersNow, many \in BOOLEAN :
          SchemaUnder(b, many, global_types) = SchemaUnder(b, many, before)

\* C14 as stated: after register_global_type(T, e) builders built
\* afterwards use e for T, and after a following unregister_global_type(T)
\* they produce what they produced before the registration.
C14_RegisterUnregisterAsStated ==
    /\ UsesRegistered
    /\ Registered(TRUE) => Restored

\* C14: the same, when T had no encoder registered before the registration.
C14_RegisterUnregister ==
    /\ UsesRegistered
    /\ (Registered(TRUE) /\ last_reg[1].type_ \notin DOMAIN before) => Restored

\* a type was registered and unregistered while another one stayed
\* registered
C14_Witness ==
    /\ Registered(TRUE)
    /\ last_reg[1].type_ \notin DOMAIN before
    /\ before # EmptyMap
    /\ result = Returned("unregister_global_type")

\* the schema of the encoder found first among the field-scoped, the
\* serializer-scoped and the global ones, the built-in schema otherwise
Resolved(field_scoped, serializer_scoped, registry, type_) ==
    IF type_ \in DOMAIN field_scoped THEN field_scoped[type_].schema
    ELSE IF type_ \in DOMAIN serializer_scoped THEN serializer_scoped[type_].schema
    ELSE IF type_ \in DOMAIN registry THEN registry[type_].schema
    ELSE TypeS(JsonTypeName(type_))

\* the fields of a record, of the types encoders are given for, are
\* described as resolved
ResolvedIn(record_schema, fields, field_scoped, serializer_scoped, registry) ==
    \A i \in DOMAIN fields :
        fields[i].type \in RegistryTypes =>
            record_schema.properties[fields[i].name].schema
               = Resolved(field_scoped, serializer_scoped, registry, fields[i].type)

\* the schema returned last was built under the registry as it is now
BuiltNow ==
    /\ result.call = "json_schema"
    /\ result.value = SchemaUnder(builder, result.many, global_types)

\* the root fields are resolved serializer-scoped, global, built-in
C15_RootOrder ==
    BuiltNow =>
        ResolvedIn(RootRecord(result.value), DataclassFields(builder._dataclass.type_),
                   EmptyMap, builder._types, global_types)

\* C15: the schema of a field type is given by the first encoder found in
\* the order field-scoped, serializer-scoped, global registry, built-in,
\* also in the record nested under a field that has type_encoders of its own.
C15_ResolutionOrder ==
    BuiltNow =>
        /\ ResolvedIn(RootRecord(result.value), DataclassFields(builder._dataclass.type_),
                      EmptyMap, builder._types, global_types)
        /\ \A i \in DOMAIN builder._fields :
              builder._fields[i].field.type.k = "dc" =>
                 ResolvedIn(result.value.definitions[
                                default_get_definition_name(
                                    builder._fields[i].field.type.name, <<>>, <<>>, <<>>)],
                            DataclassFields(builder._fields[i].field.type.name),
                            builder._fields[i].hints.type_encoders,
                            builder._types, global_types)

\* C16: json_schema(many=false) and the items of json_schema(many=true) of
\* one builder describe the same record schema, with the same definitions,
\* on every call, whatever registry calls are made in between.
C16_FixedAfterConstruction ==
    /\ (builder._schema # EmptySchema /\ builder._many_schema # EmptySchema) =>
          /\ RootRecord(builder._schema) = RootRecord(builder._many_schema)
          /\ builder._schema.definitions = builder._many_schema.definitions
    /\ result.call = "json_schema" =>
          \A slot \in {builder._schema, builder._many_schema} :
              slot # EmptySchema =>
                 /\ RootRecord(result.value) = RootRecord(slot)
                 /\ result.value.definitions = slot.definitions


(***************************************************************************)
(* serpyco/validator.py: a Validator builds the schema of its dataclass,   *)
(* compiles it on the first validation and raises ValidationError          *)
(* (serpyco/exception.py) for the error the compiled validator reports.    *)
(* The classes of the model have no Enum field and no format, pattern,     *)
(* length or range hint.                                                   *)
(***************************************************************************)
OneOfS(schemas) == [s |-> "oneOf", oneOf |-> schemas, description |-> NoDescription]

\* the entry of a Validator in parent_validators: its dataclass and what
\* __hash__ hashes
ValidatorEntry(self) ==
    [dc |-> self._dataclass,
     key |-> <<self._dataclass, self._many, self._only, self._exclude>>]

\* Validator.__init__: every kept hints object has its dict_key
Validator(dataclass, many, only, exclude, type_encoders) ==
    [_dataclass |-> dataclass,
     _many |-> many,
     _validator |-> Null,
     _only |-> only,
     _exclude |-> exclude,
     _types |-> type_encoders,
     _fields |->
        FilterFields(dataclass,
                     [i \in DOMAIN DataclassFields(dataclass) |->
                         _SchemaBuilderField(dataclass, DataclassFields(dataclass)[i],
                                             {<<dataclass, DataclassFields(dataclass)[i].name>>})],
                     only, exclude)]

\* Validator._global_types: no call of the model registers a schema
ValidatorGlobalTypes == EmptyMap

\* Validator._get_definition_name
_get_definition_name(type_, only, exclude) ==
    type_ \o (IF only # <<>> THEN "_only_" \o Join(only, "_") ELSE "")
          \o (IF exclude # <<>> THEN "_exclude_" \o Join(exclude, "_") ELSE "")

\* the $ref of a nested dataclass field (validator.py:246-255)
ValidatorRef(field_type, parent_validators, vfield) ==
    IF field_type.name = parent_validators[1].dc
    THEN "#"
    ELSE "#/definitions/"
           \o _get_definition_name(field_type.name, vfield.hints.only, vfield.hints.exclude)

\* the description hint put on a field schema (validator.py:328-329)
ValidatorDescribed(vfield, got) ==
    IF vfield.hints.description # NoDescription
    THEN [schema |-> [got.schema EXCEPT !.description = vfield.hints.description],
          required |-> got.required]
    ELSE [schema |-> got.schema, required |-> got.required]

RECURSIVE Validator_get_field_schema(_, _, _, _)
\* Validator._get_field_schema: the field schema and whether the field is
\* required
Validator_get_field_schema(self, field_type, parent_validators, vfield) ==
    LET sub(t) == Validator_get_field_schema(self, t, parent_validators, vfield).schema
        args == field_type.of
    IN ValidatorDescribed(vfield,
         IF field_type \in DOMAIN self._types
            THEN [schema |-> self._types[field_type].schema, required |-> TRUE]
         ELSE IF field_type \in DOMAIN ValidatorGlobalTypes
            THEN [schema |-> ValidatorGlobalTypes[field_type],
                  required |-> TRUE]
         ELSE IF field_type.k = "dc"
            THEN [schema |-> RefS(ValidatorRef(field_type, parent_validators, vfield)),
                  required |-> TRUE]
         ELSE IF _is_optional(field_type)
            THEN [schema |-> AnyOfS(<<sub(args[1]), TypeS("null")>>),
                  required |-> FALSE]
         ELSE IF _is_union(field_type)
            THEN [schema |-> OneOfS([i \in DOMAIN args |-> sub(args[i])]),
                  required |-> TRUE]
         ELSE IF field_type \in JSON_ENCODABLE_TYPES
            THEN [schema |-> TypeS(JsonTypeName(field_type)), required |-> TRUE]
         ELSE IF _is_mapping(field_type)
            THEN [schema |-> ObjectS(IF args[2] = AnyT THEN AnyS ELSE sub(args[2])),
                  required |-> TRUE]
         ELSE IF _is_iterable(field_type)
            THEN [schema |-> ArrayS(IF args[1] = AnyT THEN AnyS ELSE sub(args[1])),
                  required |-> TRUE]
         ELSE IF field_type.k = "newtype"
            THEN [schema |-> sub(args[1]), required |-> TRUE]
         ELSE [schema |-> SchemaErrorS, required |-> TRUE])

\* the item types whose definitions a field needs (validator.py:159-168)
ValidatorItemTypes(field_type) ==
    IF _is_optional(field_type) THEN <<field_type.of[1]>>
    ELSE IF _is_union(field_type) THEN field_type.of
    ELSE IF _is_mapping(field_type) THEN <<field_type.of[2]>>
    ELSE IF _is_iterable(field_type) THEN <<field_type.of[1]>>
    ELSE <<field_type>>

\* the default a field schema carries: the default, or what the factory
\* returns, dumped by the encoder of the type when there is one
ValidatorDefault(self, vfield) ==
    LET val == IF vfield.field.default # MISSING THEN vfield.field.default
               ELSE IF vfield.field.factory THEN DefaultFactoryValue
               ELSE MISSING
    IN IF val # MISSING /\ vfield.field.type \in DOMAIN self._types
       THEN EncoderDump(self._types[vfield.field.type], val)
       ELSE val

RECURSIVE Validator_create_json_schema(_, _, _), ValidatorItems(_, _, _, _, _),
          ValidatorFields(_, _, _)

\* the definitions and the shared parent_validators list once the
\* sub-validator has built its schema (validator.py:198-199)
ValidatorNested(st, definition_name, built) ==
    [st EXCEPT !.definitions = built.schema @@ (definition_name :> NoneSchema) @@ @,
               !.parent_validators = built.parent_validators]

\* the sub-validator is created and builds its schema (validator.py:189-197)
ValidatorDescend(st, definition_name, sub) ==
    ValidatorNested(st, definition_name,
                    Validator_create_json_schema(sub, TRUE, st.parent_validators))

\* the body of the loop over item_types (validator.py:170-199)
ValidatorItem(self, vfield, item_type, st) ==
    IF item_type.k # "dc" THEN st
    ELSE IF _get_definition_name(item_type.name, vfield.hints.only, vfield.hints.exclude)
               \in DOMAIN st.definitions
    THEN st
    ELSE IF \E i \in DOMAIN st.parent_validators :
               st.parent_validators[i].key
                  = <<item_type.name, FALSE, vfield.hints.only, vfield.hints.exclude>>
    THEN st
    ELSE ValidatorDescend(st,
                          _get_definition_name(item_type.name, vfield.hints.only,
                                               vfield.hints.exclude),
                          Validator(item_type.name, FALSE, vfield.hints.only,
                                    vfield.hints.exclude, self._types))

\* the loop over item_types: st holds the properties, the definitions and
\* the shared parent_validators list
ValidatorItems(self, vfield, item_types, n, st) ==
    IF n > Len(item_types) THEN st
    ELSE ValidatorItems(self, vfield, item_types, n + 1,
                        ValidatorItem(self, vfield, item_types[n], st))

\* the loop over self._fields
ValidatorFields(self, n, st) ==
    IF n > Len(self._fields) THEN st
    ELSE
      LET vfield == self._fields[n]
          field_type == vfield.field.type
          got == Validator_get_field_schema(self, field_type, st.parent_validators, vfield)
          st1 == [st EXCEPT
                      !.properties = (vfield.hints.dict_key :>
                                         [schema |-> got.schema,
                                          default |-> ValidatorDefault(self, vfield)]) @@ @]
          st2 == ValidatorItems(self, vfield, ValidatorItemTypes(field_type), 1, st1)
      IN ValidatorFields(self, n + 1,
            [st2 EXCEPT !.required =
                IF got.required THEN Append(@, vfield.hints.dict_key) ELSE @])

\* Validator._create_json_schema: the schema, and parent_validators as the
\* call leaves it
Validator_create_json_schema(self, embeddable, parent_validators) ==
    LET st == ValidatorFields(self, 1,
                   [properties |-> EmptyMap, required |-> <<>>, definitions |-> EmptyMap,
                    parent_validators |-> Append(parent_validators, ValidatorEntry(self))])
        schema == [type |-> "object", properties |-> st.properties,
                   required |-> st.required]
    IN [schema |->
           IF embeddable
           THEN (_get_definition_name(self._dataclass, self._only, self._exclude) :> schema)
                   @@ st.definitions
           ELSE IF ~self._many
                THEN [type |-> "object", record |-> schema, definitions |-> st.definitions]
                ELSE [type |-> "array", items |-> schema, definitions |-> st.definitions],
        parent_validators |-> st.parent_validators]

\* Validator.json_schema
Validator_json_schema(self) == Validator_create_json_schema(self, FALSE, <<>>).schema


\* rapidjson.dumps / rapidjson.loads: the JSON text of a value and the value
\* of a JSON text; the order of the keys in the text is not kept
rapidjson_dumps(v) == [json |-> v]
rapidjson_loads(json_string) == json_string.json

\* a JSON pointer and the components it is made of
Pointer(components) == Join(<<"#">> \o components, "/")

\* the pointer component of a position in an array
IndexName(i) == CASE i = 1 -> "0" [] i = 2 -> "1" [] OTHER -> "2"
IndexNames == {"0", "1", "2"}

\* a rapidjson.ValidationError: args is (schema keyword, schema path, data
\* path); expected is what the schema holds under the keyword at that path
Violation(part, schema_path, data_path, expected) ==
    [args |-> <<part, Pointer(schema_path), Pointer(data_path)>>,
     data_path |-> data_path,
     expected |-> expected]

IsRecordSchema(schema) == "properties" \in DOMAIN schema

RECURSIVE Violations(_, _, _, _, _)
\* the errors a compiled validator can report first for a value: it stops
\* at the first one it meets in the order of the JSON text, and reports a
\* missing required property when it reaches the end of the object
Violations(top, schema, schema_path, v, data_path) ==
    IF IsRecordSchema(schema)
    THEN IF v.j # "obj"
         THEN {Violation("type", schema_path, data_path, "object")}
         ELSE LET inner ==
                    UNION {Violations(top, schema.properties[k].schema,
                                      schema_path \o <<"properties", k>>,
                                      v.m[k], Append(data_path, k)) :
                              k \in DOMAIN v.m \cap DOMAIN schema.properties}
              IN IF inner # {} THEN inner
                 ELSE IF Range(schema.required) \ DOMAIN v.m # {}
                 THEN {Violation("required", schema_path, data_path, schema.required)}
                 ELSE {}
    ELSE CASE schema.s = "type" ->
                 IF JsonTypeOf(v) = schema.type THEN {}
                 ELSE {Violation("type", schema_path, data_path, schema.type)}
           [] schema.s = "anyOf" ->
                 IF \E i \in DOMAIN schema.anyOf :
                        Violations(top, schema.anyOf[i], schema_path, v, data_path) = {}
                 THEN {}
                 ELSE {Violation("anyOf", schema_path, data_path, "")}
           [] schema.s = "oneOf" ->
                 IF Cardinality({i \in DOMAIN schema.oneOf :
                        Violations(top, schema.oneOf[i], schema_path, v, data_path) = {}}) = 1
                 THEN {}
                 ELSE {Violation("oneOf", schema_path, data_path, "")}
           [] schema.s = "ref" ->
                 IF schema.ref = "#"
                 THEN Violations(top, RootRecord(top), <<>>, v, data_path)
                 ELSE LET name == CHOOSE n \in DOMAIN top.definitions :
                                      schema.ref = "#/definitions/" \o n
                      IN Violations(top, top.definitions[name], <<"definitions", name>>,
                                    v, data_path)
           [] schema.s = "array" ->
                 IF v.j # "arr"
                 THEN {Violation("type", schema_path, data_path, "array")}
                 ELSE UNION {Violations(top, schema.items, Append(schema_path, "items"),
                                        v.a[i], Append(data_path, IndexName(i))) :
                                i \in DOMAIN v.a}
           [] schema.s = "object" ->
                 IF v.j # "obj"
                 THEN {Violation("type", schema_path, data_path, "object")}
                 ELSE UNION {Violations(top, schema.additionalProperties,
                                        Append(schema_path, "additionalProperties"),
                                        v.m[k], Append(data_path, k)) : k \in DOMAIN v.m}
           [] OTHER -> {}

\* rapidjson.Validator(js)(json_string): the errors the call can raise
rapidjson_Validator(top, json_string) ==
    LET v == rapidjson_loads(json_string)
    IN IF top.type = "array"
       THEN IF v.j # "arr"
            THEN {Violation("type", <<>>, <<>>, "array")}
            ELSE UNION {Violations(top, top.items, <<"items">>, v.a[i], <<IndexName(i)>>) :
                           i \in DOMAIN v.a}
       ELSE Violations(top, top.record, <<>>, v, <<>>)

RECURSIVE Validator_get_value(_, _)
\* Validator._get_value: the value a path leads to
Validator_get_value(components, tree) ==
    IF components = <<>> THEN tree
    ELSE IF tree.j = "obj" THEN Validator_get_value(Tail(components), tree.m[components[1]])
    ELSE IF tree.j = "arr"
         THEN Validator_get_value(
                  Tail(components),
                  tree.a[CHOOSE i \in DOMAIN tree.a : IndexName(i) = components[1]])
    ELSE Error

\* d.__class__.__name__
ClassName(d) ==
    CASE d.j = "null" -> "NoneType"
      [] d.j = "int" -> "int"
      [] d.j = "str" -> "str"
      [] d.j = "arr" -> "list"
      [] d.j = "obj" -> "dict"
      [] OTHER -> "object"

\* the data path made python-like: data[0]["bar"]
RECURSIVE PythonPath(_)
PythonPath(components) ==
    IF components = <<>> THEN "data"
    ELSE PythonPath(SubSeq(components, 1, Len(components) - 1))
           \o (IF components[Len(components)] \in IndexNames
               THEN "[" \o components[Len(components)] \o "]"
               ELSE "[\"" \o components[Len(components)] \o "\"]")

\* the orders a set can be listed in
Orders(S) == {l \in ListsOf(S, Cardinality(S)) : Len(l) = Cardinality(S) /\ NoRepeat(l)}

\* Validator._get_error_message: the messages the error can be given; the
\* missing properties are listed in the order of a set
_get_error_message(exc, tree) ==
    LET d == Validator_get_value(exc.data_path, tree)
        part == exc.args[1]
        quoted(ps) == [i \in DOMAIN ps |-> "\"" \o ps[i] \o "\""]
        msgs ==
            IF part = "type"
            THEN {"has type " \o ClassName(d) \o ", expected " \o exc.expected}
            ELSE IF part = "required"
            THEN {"is missing required properties " \o Join(quoted(props), ", ") :
                     props \in Orders(Range(exc.expected) \ DOMAIN d.m)}
            ELSE {"validation error ('" \o part \o "', '" \o exc.args[2] \o "', '"
                     \o exc.args[3] \o "')"}
    IN {PythonPath(exc.data_path) \o ": " \o msg \o "." : msg \in msgs}

\* Python objects given as the errors of a ValidationError
Tuple(items) == [py |-> "tuple", items |-> items]
Dict(m) == [py |-> "dict", m |-> m]
Falsy(x) == x = Null \/ x = Tuple(<<>>) \/ x = Dict(EmptyMap)

\* ValidationError.__init__(msg, errors): args is (msg, errors or {"#": msg})
ValidationError__init__(msg, errors) ==
    [raised |-> "ValidationError",
     msg |-> msg,
     errors |-> IF Falsy(errors) THEN Dict("#" :> msg) ELSE errors]

\* the call returned None
ReturnedNone == [raised |-> "nothing"]

\* a failed validation that forgets the fields of the validator
validate_json_ForgetsFields(self, json_string) ==
    LET compiled == IF self._validator = Null
                    THEN [self EXCEPT !._validator = Validator_json_schema(self)]
                    ELSE self
        excs == rapidjson_Validator(compiled._validator, json_string)
    IN IF excs = {} THEN {[self |-> compiled, outcome |-> ReturnedNone]}
       ELSE {[self |-> [compiled EXCEPT !._fields = <<>>, !._validator = Null],
              outcome |-> ValidationError__init__(msg, Tuple(exc.args))] :
                 exc \in excs, msg \in {"error"}}

\* Validator.validate_json: the validator after the call and what the call
\* returned or raised
validate_json(self, json_string) ==
    LET compiled == IF self._validator = Null
                    THEN [self EXCEPT !._validator = Validator_json_schema(self)]
                    ELSE self
        excs == rapidjson_Validator(compiled._validator, json_string)
    IN IF excs = {} THEN {[self |-> compiled, outcome |-> ReturnedNone]}
       ELSE UNION {{[self |-> compiled,
                     outcome |-> ValidationError__init__(msg, Tuple(exc.args))] :
                        msg \in _get_error_message(exc, rapidjson_loads(json_string))} :
                      exc \in excs}

\* Validator.validate
validate(self, tree) == validate_json(self, rapidjson_dumps(tree))

\* the values a Validator is given: objects keyed by the fields of its
\* class, a nested object with a wrong value, a value that is no object,
\* and lists of them when it validates lists
RecordData(cls) ==
    DataOf(DC(cls))
      \cup {IntV(1)}
      \cup (IF cls = "Wrap"
            THEN {Obj(("hello" :> IntV(1)) @@ ("several" :> Obj("bar" :> IntV(1)))),
                  Obj(("hello" :> StrV("s")) @@ ("several" :> Obj("foo" :> StrV("s"))))}
            ELSE {})

ValidatorData(self) ==
    IF self._many
    THEN {Arr(<<>>), Obj(EmptyMap)} \cup {Arr(<<v>>) : v \in RecordData(self._dataclass)}
    ELSE RecordData(self._dataclass)

\* validator.validate(data)
ValidateCall(tree, after) ==
    /\ calls < MaxCalls
    /\ calls' = calls + 1
    /\ data' = tree
    /\ validator' = after.self
    /\ outcome' = after.outcome
    /\ failed' = (failed \/ (outcome # Unused /\ outcome.raised # "nothing"))
    /\ UNCHANGED <<builder, keyed, global_types, next_id, result, overflow, last_build>>
    /\ UNCHANGED <<serializer, op, obj, loaded>>
    /\ UNCHANGED <<name_vars, call_vars, registry_vars, side_vars>>

\* a field validator raises ValidationError(msg), without errors
PredicateRaises(msg) ==
    /\ calls < MaxCalls
    /\ calls' = calls + 1
    /\ outcome' = ValidationError__init__(msg, Null)
    /\ failed' = (failed \/ (outcome # Unused /\ outcome.raised # "nothing"))
    /\ data' = Unused
    /\ UNCHANGED validator
    /\ UNCHANGED <<builder, keyed, global_types, next_id, result, overflow, last_build>>
    /\ UNCHANGED <<serializer, op, obj, loaded>>
    /\ UNCHANGED <<name_vars, call_vars, registry_vars, side_vars>>

InitValidator ==
    /\ \E cls \in ValidatorClassNames, many \in BOOLEAN :
          validator = Validator(cls, many, <<>>, <<>>, EmptyMap)
    /\ outcome = Unused
    /\ failed = FALSE
    /\ builder = Unused
    /\ keyed = {}
    /\ global_types = EmptyMap
    /\ next_id = 1
    /\ calls = 0
    /\ result = NoResult
    /\ overflow = FALSE
    /\ last_build = <<>>
    /\ serializer = Unused
    /\ op = NoOp
    /\ obj = Unused
    /\ data = Unused
    /\ loaded = Unused
    /\ keys = <<>>
    /\ names = <<>>
    /\ NoCalls
    /\ NoRegistryCalls
    /\ NoSideCalls

NextValidator ==
    \/ \E tree \in ValidatorData(validator) :
          \E after \in validate(validator, tree) : ValidateCall(tree, after)
    \/ \E msg \in {"value is not allowed"} : PredicateRaises(msg)

SpecValidator == InitValidator /\ [][NextValidator]_vars


(***************************************************************************)
(* Properties of the validations made with one Validator.                  *)
(***************************************************************************)
\* the validator as its constructor made it
Constructed(self) ==
    Validator(self._dataclass, self._many, self._only, self._exclude, self._types)

\* what a call made first on the validator can return or raise
OutcomesOnNew(self, tree) == {after.outcome : after \in validate(Constructed(self), tree)}

IsRaise(o) == o # Unused /\ o.raised = "ValidationError"

\* the last call was a validation of data
Validating == outcome # Unused /\ data # Unused

\* C17: a validation that fails leaves the validator as a successful one
\* leaves it: its attributes are those it was constructed with, its
\* compiled schema is the schema of its class, and every later call returns
\* or raises what it would on a validator that never failed.
C17_FailureChangesNothing ==
    /\ validator._validator \in {Null, Validator_json_schema(Constructed(validator))}
    /\ [validator EXCEPT !._validator = Null] = Constructed(validator)
    /\ Validating => outcome \in OutcomesOnNew(validator, data)

\* a valid value is accepted after a call that failed
C17_Witness ==
    /\ failed
    /\ data # Unused
    /\ outcome = ReturnedNone

\* the keys of the record whose value the schema refuses, and the required
\* keys the record does not hold
InvalidFields(self, tree) ==
    LET top == Validator_json_schema(Constructed(self))
    IN {k \in DOMAIN top.record.properties :
           IF k \in DOMAIN tree.m
           THEN Violations(top, top.record.properties[k].schema, <<"properties", k>>,
                           tree.m[k], <<k>>) # {}
           ELSE k \in Range(top.record.required)}

\* C18: a record with n invalid fields raises one ValidationError whose
\* errors hold n entries, the same whatever the order of the keys of the
\* record.
C18_OneErrorPerInvalidField ==
    (Validating /\ IsRaise(outcome) /\ ~validator._many /\ data.j = "obj") =>
        /\ outcome.errors.py = "dict"
        /\ Cardinality(DOMAIN outcome.errors.m)
              = Cardinality(InvalidFields(validator, data))
        /\ Cardinality(OutcomesOnNew(validator, data)) = 1

\* a ValidationError made without errors maps "#" to its message
C19_DefaultErrors ==
    (IsRaise(outcome) /\ ~Validating) => outcome.errors = Dict("#" :> outcome.msg)

\* C19: every ValidationError carries a message and a non-empty mapping
\* from paths to messages: {"#": message} when it is made without errors,
\* and the validator never gives its errors another shape.
C19_ErrorsIsMapping ==
    IsRaise(outcome) =>
        /\ outcome.msg # ""
        /\ outcome.errors.py = "dict"
        /\ DOMAIN outcome.errors.m # {}
        /\ ~Validating => outcome.errors = Dict("#" :> outcome.msg)

(***************************************************************************)
(* Field predicates and the occurrences of their fields.                   *)
(***************************************************************************)
RECURSIVE Occurrences(_, _, _), OccurrencesIn(_, _, _, _), OccurrencesEach(_, _, _, _),
          OccurrencesUnder(_, _, _, _)

\* the occurrences, in the fields of a record from the n-th on
OccurrencesIn(cls, tree, predicate, n) ==
    IF n > Len(DataclassFields(cls)) THEN 0
    ELSE OccurrencesIn(cls, tree, predicate, n + 1)
           + (IF FieldKey(cls, DataclassFields(cls)[n].name) \in DOMAIN tree.m
              THEN (IF HintsOf(cls, DataclassFields(cls)[n], AllKeyed).validator = predicate
                    THEN 1 ELSE 0)
                   + Occurrences(DataclassFields(cls)[n].type,
                                 tree.m[FieldKey(cls, DataclassFields(cls)[n].name)],
                                 predicate)
              ELSE 0)

\* the occurrences in the elements of a sequence
OccurrencesEach(t, values, predicate, n) ==
    IF n > Len(values) THEN 0
    ELSE Occurrences(t, values[n], predicate) + OccurrencesEach(t, values, predicate, n + 1)

\* the occurrences in the entries of a mapping under the given keys
OccurrencesUnder(t, entries, predicate, under) ==
    IF under = {} THEN 0
    ELSE Occurrences(t, entries[CHOOSE key \in under : TRUE], predicate)
           + OccurrencesUnder(t, entries, predicate,
                              under \ {CHOOSE key \in under : TRUE})

\* how many times a field carrying the predicate is present in a value of
\* type t
Occurrences(t, tree, predicate) ==
    CASE t.k = "dc" /\ tree.j = "obj" -> OccurrencesIn(t.name, tree, predicate, 1)
      [] t.k = "list" /\ tree.j = "arr" -> OccurrencesEach(t.of[1], tree.a, predicate, 1)
      [] t.k = "dict" /\ tree.j = "obj" ->
            OccurrencesUnder(t.of[2], tree.m, predicate, DOMAIN tree.m)
      [] t.k = "union" /\ tree.j = "obj" /\ \E i \in DOMAIN t.of : t.of[i].k = "dc" ->
            Occurrences(t.of[CHOOSE i \in DOMAIN t.of : t.of[i].k = "dc"], tree, predicate)
      [] OTHER -> 0

\* the predicates the fields of the classes carry
Predicates == {"validate", "check", "validator"}

\* how many times the predicate was invoked
Invoked(predicate) ==
    Cardinality({i \in DOMAIN trace : trace[i].e = "predicate" /\ trace[i].name = predicate})

\* a validated load whose structural validation succeeded and whose
\* predicates are all done
PredicatesRan ==
    /\ op.name = "load"
    /\ op.validate
    /\ pc.at \in {"fields", "done"}
    /\ \E k \in DOMAIN trace : trace[k].e = "validate" /\ trace[k].name = "ok"

\* the value the structural validation accepted
ValidatedValue == trace[CHOOSE k \in DOMAIN trace : trace[k].e = "validate"].value

\* C21: when a validated load succeeds structurally, each field predicate is
\* invoked exactly once for every occurrence of its field present in the
\* value: once per element of a sequence, once per entry of a mapping, once
\* under every parent field that references the owning record, and also
\* when the field is renamed by dict_key
C21_OncePerOccurrence ==
    PredicatesRan =>
        \A predicate \in Predicates :
            Invoked(predicate) = Occurrences(serializer.dataclass, ValidatedValue, predicate)

\* the same for records nested in sequences only, with fields keyed by
\* their names
C21_SequencesOfNamedFields ==
    serializer.dataclass.name \in {"ListFoo", "WithVal", "Decorated", "Audited"}
        => C21_OncePerOccurrence

(***************************************************************************)
(* The keys of a dumped record.                                            *)
(***************************************************************************)
\* the records the last dump was made of, each with what it gave
DumpedPairs ==
    IF op.name # "dump" \/ data = ValidationError THEN {}
    ELSE IF op.many THEN {<<obj.a[i], data.a[i]>> : i \in DOMAIN obj.a}
    ELSE {<<obj, data>>}

\* the fields of the serializer's view
InView(self) ==
    DOMAIN DataclassFields(_DataClassParams(self.dataclass).type_) \ Omitted(self)

\* field i of the record is declared Optional and its dumped value is null
OptionalNull(self, x, i) ==
    LET params == _DataClassParams(self.dataclass)
        f == DataclassFields(params.type_)[i]
    IN /\ _is_optional(resolve_type(params, f.type))
       /\ DumpValue(resolve_type(params, f.type), x.f[f.name],
                    DeclaredHints(params.type_, i), self.omit_none) = Null

AbsentKeys(self, v) ==
    {i \in InView(self) :
        DeclaredHints(_DataClassParams(self.dataclass).type_, i).dict_key \notin DOMAIN v.m}

\* what the declaration of a field gives it when nothing is given
DeclaredDefault(f) == IF f.default # MISSING THEN f.default ELSE DefaultFactoryValue

\* C23: on load, a field whose key is absent from the input takes its
\* default value (or the result of its default factory) when it has one;
\* when it has neither and is not optional the load fails, with
\* ValidationError when validate=true and with an error instead of a
\* partially built record when validate=false
C23_AbsentKeys ==
    (op.name = "load" /\ ~op.many) =>
        \A i \in AbsentKeys(serializer, data) :
            LET params == _DataClassParams(serializer.dataclass)
                f == DataclassFields(params.type_)[i]
            IN IF f.default # MISSING \/ f.factory
               THEN loaded.j = "inst" => loaded.f[f.name] = DeclaredDefault(f)
               ELSE ~_is_optional(resolve_type(params, f.type))
                       => loaded = (IF op.validate THEN ValidationError ELSE Error)

\* Foo was loaded from a value without the key of its field with a default
C23_Witness ==
    /\ op.name = "load"
    /\ serializer.dataclass = DC("Foo")
    /\ serializer.only = <<>>
    /\ serializer.exclude = <<>>
    /\ DOMAIN data.m = {"name"}
    /\ loaded.j = "inst"
    /\ loaded.f["description"] = StrV("")

\* FooNoDefault was loaded without validation from a value lacking a key
C23_WitnessFailed ==
    /\ op.name = "load"
    /\ ~op.validate
    /\ serializer.dataclass = DC("FooNoDefault")
    /\ DOMAIN data.m = {"name"}
    /\ loaded = Error

(***************************************************************************)
(* What a builder collects while it builds its schema.                     *)
(***************************************************************************)
\* the builder once its schema has been built, from its construction
BuiltFresh(b) ==
    _create_json_schema(Fresh(b), FALSE, FALSE, NewContext(1), Env, MaxDepth).self

\* a schema has been built on the builder
HasBuilt(b) ==
    b._schema # EmptySchema \/ b._many_schema # EmptySchema \/ b._nested_builders # {}

\* C25: field_validators() returns the same list whenever it is called,
\* holding every (path, predicate) pair of the record exactly once, before
\* and after json_schema() and nested_builders()
C25_FieldValidatorsStable ==
    result.call = "field_validators" =>
        /\ result.value = field_validators(BuiltFresh(builder))
        /\ NoRepeat(result.value)

\* the same once a schema has been built
C25_StableOnceBuilt ==
    HasBuilt(builder) => C25_FieldValidatorsStable

\* C26: nested_builders() holds an entry for every sub-record the record
\* refers to, those of nested records included: the names of its entries
\* are the keys of the definitions of the schema
C26_NestedBuildersComplete ==
    (result.call = "nested_builders" /\ ~overflow) =>
        {e.name : e \in result.value} = DOMAIN FreshSchema(builder, FALSE).definitions

\* the entries name definitions of the schema
C26_NestedBuildersAreDefinitions ==
    (result.call = "nested_builders" /\ ~overflow) =>
        {e.name : e \in result.value} \subseteq DOMAIN FreshSchema(builder, FALSE).definitions

\* C27: after any sequence of json_schema(many=False), json_schema(many=True)
\* and nested_builders() calls, the nested builders hold at most one entry
\* per definition name
C27_OneEntryPerName ==
    \A e1, e2 \in builder._nested_builders : e1.name = e2.name => e1 = e2

\* the same after at most one call
C27_OneEntryAfterOneCall ==
    calls <= 1 => C27_OneEntryPerName

\* C29: with strict=true every record schema the builder produces, the root
\* and every entry of definitions, has additionalProperties false; with
\* strict=false they all have additionalProperties true
C29_StrictEverywhere ==
    result.call = "json_schema" =>
        /\ RootRecord(result.value).additionalProperties = ~builder._strict
        /\ \A name \in DOMAIN result.value.definitions :
              result.value.definitions[name].additionalProperties = ~builder._strict

\* the same for the root record
C29_StrictAtRoot ==
    result.call = "json_schema" =>
        RootRecord(result.value).additionalProperties = ~builder._strict

(***************************************************************************)
(* Concurrent callers of one shared SchemaBuilder.  A caller is a thread   *)
(* that runs a public method; another thread can run between the entry of  *)
(* _create_json_schema, the fields of its loop and the store of the        *)
(* schema in its slot.  The sub-builders a field creates belong to the     *)
(* thread that creates them.                                               *)
(***************************************************************************)
Threads == {1, 2}
MaxThreadCalls == 2

\* the classes the shared builder is made for
ThreadClassNames == {"WithVal", "Types", "Holder", "ListFoo"}

ThreadIdle ==
    [at |-> "idle", no_field_validators |-> FALSE, n |-> 0, local |-> Unused,
     result |-> NoResult, made |-> <<>>]

MethodCall(name, many) == [call |-> name, many |-> many]

\* the calls a thread makes
MethodCalls ==
    {MethodCall("json_schema", many) : many \in BOOLEAN}
      \cup {MethodCall("nested_builders", FALSE), MethodCall("field_validators", FALSE)}

\* the slot the method keeps its schema in (schema.py:129-130, 137-144)
SlotOf(c) == IF c.call = "json_schema" /\ ~c.many THEN "_many_schema" ELSE "_schema"

\* the method returns without building (schema.py:129, 138, 142, 146-147)
NothingToBuild(self, c) ==
    CASE c.call = "field_validators" -> TRUE
      [] c.call = "nested_builders" -> self._nested_builders # {}
      [] c.call = "json_schema" /\ c.many -> self._schema # EmptySchema
      [] OTHER -> self._many_schema # EmptySchema

\* what the method returns on the builder as it is
ReturnedBy(self, c) ==
    CASE c.call = "field_validators" -> field_validators(self)
      [] c.call = "nested_builders" -> self._nested_builders
      [] c.call = "json_schema" /\ c.many -> self._schema
      [] OTHER -> self._many_schema

ThreadResult(c, value) == [call |-> c.call, many |-> c.many, value |-> value]

\* the locals of _create_json_schema at its entry (schema.py:170-183)
EnterBuild(self) ==
    [properties |-> EmptyMap, required |-> <<>>, definitions |-> EmptyMap,
     ctx |-> [parent_builders |-> <<ParentEntry(self)>>, next_id |-> 0,
              overflow |-> FALSE]]

\* a thread calls a method: it returns at once, or enters
\* _create_json_schema and reads no_field_validators
ThreadCalls(t, c) ==
    /\ threads[t].at \in {"idle", "returned"}
    /\ Len(threads[t].made) < MaxThreadCalls
    /\ threads' =
          [threads EXCEPT ![t] =
              IF NothingToBuild(builder, c)
              THEN [@ EXCEPT !.at = "returned",
                             !.result = ThreadResult(c, ReturnedBy(builder, c)),
                             !.made = Append(@, c)]
              ELSE [@ EXCEPT !.at = "building",
                             !.no_field_validators = (builder._field_validators = <<>>),
                             !.n = 1,
                             !.local = EnterBuild(builder),
                             !.result = NoResult,
                             !.made = Append(@, c)]]
    /\ UNCHANGED <<builder_vars, serializer_vars, name_vars, call_vars, validator_vars,
                   registry_vars, attempt, mixin>>

\* the shared builder and the thread's locals after one field
ThreadFieldDone(t, r) ==
    /\ builder' = r.self
    /\ next_id' = r.ctx.next_id
    /\ overflow' = (overflow \/ r.ctx.overflow)
    /\ threads' = [threads EXCEPT ![t].n = @ + 1,
                                  ![t].local = [properties |-> r.properties,
                                                required |-> r.required,
                                                definitions |-> r.definitions,
                                                ctx |-> r.ctx]]

\* a thread runs the body of the loop for its next field, on the builder
\* as the other threads have left it
ThreadField(t) ==
    /\ threads[t].at = "building"
    /\ threads[t].n <= Len(builder._fields)
    /\ ThreadFieldDone(t, FieldBody(threads[t].n,
                                    [properties |-> threads[t].local.properties,
                                     required |-> threads[t].local.required,
                                     definitions |-> threads[t].local.definitions,
                                     self |-> builder,
                                     ctx |-> [threads[t].local.ctx
                                                EXCEPT !.next_id = next_id]],
                                    threads[t].no_field_validators, Env, MaxDepth))
    /\ UNCHANGED <<keyed, global_types, calls, result, last_build>>
    /\ UNCHANGED <<serializer_vars, name_vars, call_vars, validator_vars, registry_vars,
                   attempt, mixin>>

\* the schema is stored in the slot of the method and the method returns
ThreadStored(t, c, schema) ==
    /\ builder' = (IF SlotOf(c) = "_schema" THEN [builder EXCEPT !._schema = schema]
                   ELSE [builder EXCEPT !._many_schema = schema])
    /\ threads' = [threads EXCEPT
                      ![t].at = "returned",
                      ![t].result =
                          ThreadResult(c, IF c.call = "nested_builders"
                                          THEN builder._nested_builders ELSE schema)]

\* a thread leaves the loop: the schema is assembled from its locals
ThreadReturns(t) ==
    /\ threads[t].at = "building"
    /\ threads[t].n > Len(builder._fields)
    /\ ThreadStored(t, threads[t].made[Len(threads[t].made)],
                    Assemble(builder, threads[t].made[Len(threads[t].made)].many, FALSE,
                             [properties |-> threads[t].local.properties,
                              required |-> threads[t].local.required,
                              definitions |-> threads[t].local.definitions,
                              self |-> builder,
                              ctx |-> threads[t].local.ctx]).schema)
    /\ UNCHANGED <<keyed, global_types, next_id, calls, result, overflow, last_build>>
    /\ UNCHANGED <<serializer_vars, name_vars, call_vars, validator_vars, registry_vars,
                   attempt, mixin>>

InitThreads ==
    /\ \E cls \in ThreadClassNames :
          builder = SchemaBuilder(DC(cls), <<>>, <<>>, EmptyMap, FALSE, 0, AllKeyed)
    /\ keyed = AllKeyed
    /\ global_types = EmptyMap
    /\ next_id = 1
    /\ calls = 0
    /\ result = NoResult
    /\ overflow = FALSE
    /\ last_build = <<>>
    /\ serializer = Unused
    /\ op = NoOp
    /\ obj = Unused
    /\ data = Unused
    /\ loaded = Unused
    /\ keys = <<>>
    /\ names = <<>>
    /\ NoCalls
    /\ NoValidation
    /\ NoRegistryCalls
    /\ threads = [t \in Threads |-> ThreadIdle]
    /\ attempt = Unused
    /\ mixin = Unused

NextThreads ==
    \/ \E t \in Threads, c \in MethodCalls : ThreadCalls(t, c)
    \/ \E t \in Threads : ThreadField(t)
    \/ \E t \in Threads : ThreadReturns(t)

SpecThreads == InitThreads /\ [][NextThreads]_vars

\* the calls made so far, by every thread
CallsMade == UNION {Range(threads[t].made) : t \in DOMAIN threads}

\* C24: concurrent callers of json_schema(), nested_builders() and
\* field_validators() on one shared builder get the results the calls give
\* one after the other: field_validators() gives nothing or the complete
\* list, and no field validator or nested builder is recorded twice when
\* two callers trigger the first build at the same time
C24_ConcurrentAsSequential ==
    /\ NoRepeat(builder._field_validators)
    /\ \A t \in DOMAIN threads :
          threads[t].result.call = "field_validators" =>
             threads[t].result.value \in {<<>>, field_validators(BuiltFresh(builder))}
    /\ CallsMade \subseteq {MethodCall("json_schema", FALSE)} => C27_OneEntryPerName

\* the schemas the concurrent callers are given are those of a builder
\* called by one thread
C24_SchemasAsSequential ==
    \A t \in DOMAIN threads :
        threads[t].result.call = "json_schema" =>
           threads[t].result.value
              \in {FreshSchema(builder, TRUE), FreshSchema(builder, FALSE)}

(***************************************************************************)
(* UnionFieldEncoder: a list of (type, encoder) entries.  load gives the   *)
(* value to the encoders one after the other; every call of an encoder is  *)
(* recorded, as the mocks of the tests record them.                        *)
(***************************************************************************)
MaxEntries == 3

\* the encoders of the entries: int(v), str(v) and one that always raises
ItemEncoders == {"int", "str", "raise"}

\* the values given to load
UnionValues == {IntV(1), StrV("s"), Null}

\* encoder.load(v) of an entry: the loaded value, or Error when it raises
ItemLoad(encoder, v) ==
    CASE encoder = "int" -> IF v.j = "int" THEN v ELSE Error
      [] encoder = "str" -> IF v.j = "str" THEN v
                            ELSE IF v.j = "int" THEN StrV("1") ELSE StrV("None")
      [] OTHER -> Error

\* UnionFieldEncoder(entries)
UnionFieldEncoder(entries) ==
    [entries |-> entries, at |-> "idle", value |-> Unused, n |-> 0, called |-> <<>>,
     out |-> Unused]

\* an encoder that goes on to the next entry whatever the last one gave
AfterEntry_TriesAll(self, r) ==
    [self EXCEPT !.n = @ + 1, !.out = IF r # Error THEN r ELSE @]

\* the encoder after entry n gave r: the first value that loads is returned
AfterEntry(self, r) ==
    IF r # Error THEN [self EXCEPT !.at = "returned", !.out = r]
    ELSE [self EXCEPT !.n = @ + 1]

\* UnionFieldEncoder.load(v) is called
UnionLoad(v) ==
    /\ attempt.at = "idle"
    /\ attempt' = [attempt EXCEPT !.at = "trying", !.value = v, !.n = 1]
    /\ UNCHANGED <<builder_vars, serializer_vars, name_vars, call_vars, validator_vars,
                   registry_vars, threads, mixin>>

\* the encoder of the next entry is given the value
UnionTry ==
    /\ attempt.at = "trying"
    /\ attempt.n <= Len(attempt.entries)
    /\ attempt' = AfterEntry([attempt EXCEPT !.called = Append(@, attempt.n)],
                             ItemLoad(attempt.entries[attempt.n], attempt.value))
    /\ UNCHANGED <<builder_vars, serializer_vars, name_vars, call_vars, validator_vars,
                   registry_vars, threads, mixin>>

\* no entry is left: the load raises
UnionFail ==
    /\ attempt.at = "trying"
    /\ attempt.n > Len(attempt.entries)
    /\ attempt' = [attempt EXCEPT !.at = "raised", !.out = ValidationError]
    /\ UNCHANGED <<builder_vars, serializer_vars, name_vars, call_vars, validator_vars,
                   registry_vars, threads, mixin>>

InitUnion ==
    /\ \E entries \in ListsOf(ItemEncoders, MaxEntries) :
          attempt = UnionFieldEncoder(entries)
    /\ builder = Unused
    /\ keyed = AllKeyed
    /\ global_types = EmptyMap
    /\ next_id = 1
    /\ calls = 0
    /\ result = NoResult
    /\ overflow = FALSE
    /\ last_build = <<>>
    /\ serializer = Unused
    /\ op = NoOp
    /\ obj = Unused
    /\ data = Unused
    /\ loaded = Unused
    /\ keys = <<>>
    /\ names = <<>>
    /\ NoCalls
    /\ NoValidation
    /\ NoRegistryCalls
    /\ threads = <<>>
    /\ mixin = Unused

NextUnion ==
    \/ \E v \in UnionValues : UnionLoad(v)
    \/ UnionTry
    \/ UnionFail

SpecUnion == InitUnion /\ [][NextUnion]_vars

\* the entry whose encoder is the first to load the value, 0 when none does
FirstLoading(entries, v) ==
    IF \E i \in DOMAIN entries : ItemLoad(entries[i], v) # Error
    THEN CHOOSE i \in DOMAIN entries :
            /\ ItemLoad(entries[i], v) # Error
            /\ \A k \in 1..(i - 1) : ItemLoad(entries[k], v) = Error
    ELSE 0

\* C28: UnionFieldEncoder.load gives the value to the encoders of its
\* entries in declared order and returns what the first one that does not
\* fail returns, without calling the encoders of later entries; when every
\* entry fails it raises a validation error
C28_FirstInDeclaredOrder ==
    attempt # Unused =>
        /\ attempt.called = [i \in 1..Len(attempt.called) |-> i]
        /\ attempt.at = "returned" =>
              /\ FirstLoading(attempt.entries, attempt.value) # 0
              /\ Len(attempt.called) = FirstLoading(attempt.entries, attempt.value)
              /\ attempt.out = ItemLoad(attempt.entries[Len(attempt.called)], attempt.value)
        /\ attempt.at = "raised" =>
              /\ FirstLoading(attempt.entries, attempt.value) = 0
              /\ Len(attempt.called) = Len(attempt.entries)
              /\ attempt.out = ValidationError
        /\ attempt.at = "trying" =>
              \A i \in DOMAIN attempt.called :
                  ItemLoad(attempt.entries[i], attempt.value) = Error

\* the value was loaded by the second of three entries: the first was
\* called and failed, the third was not called
C28_Witness ==
    /\ attempt # Unused
    /\ attempt.at = "returned"
    /\ Len(attempt.entries) = 3
    /\ attempt.called = <<1, 2>>
    /\ attempt.entries[3] = "str"
    /\ attempt.out = StrV("s")

(***************************************************************************)
(* SerializerMixin: the classmethod serializer() caches the Serializer of  *)
(* a class in the class attribute _serializer.  A class attribute is       *)
(* looked up along the classes a class derives from and assigned on the    *)
(* class itself.                                                           *)
(***************************************************************************)
\* the dataclasses deriving from SerializerMixin, each with its base
MixinBase ==
    [Foo |-> "SerializerMixin", SubFoo |-> "Foo", SubSubFoo |-> "SubFoo",
     Bar |-> "SerializerMixin"]

MixinClasses == DOMAIN MixinBase

\* the methods of the mixin, all of which go through serializer()
MixinMethods == {"serializer", "load", "dump", "load_json", "dump_json"}

\* None, the value _serializer has in SerializerMixin (mixin.py:11)
NoSerializer == [j |-> "null"]

\* Serializer(cls): a new object, told from the others by its id
NewSerializer(cls, id) == [j |-> "Serializer", dataclass |-> cls, id |-> id]

\* cls._serializer read: the attribute of the first class that has it, from
\* cls up to SerializerMixin
RECURSIVE GetSerializerAttr(_, _)
GetSerializerAttr(own, cls) ==
    IF cls \in DOMAIN own THEN own[cls]
    ELSE IF cls = "SerializerMixin" THEN NoSerializer
    ELSE GetSerializerAttr(own, MixinBase[cls])

\* the state after cls.serializer() found the attribute value found
\* (mixin.py:40-42)
SerializerCalled(self, cls, method, found) ==
    IF found = NoSerializer
    THEN [self EXCEPT
             !.own = (cls :> NewSerializer(cls, self.next)) @@ @,
             !.next = @ + 1,
             !.made[cls] = @ + 1,
             !.given[cls] = @ \cup {NewSerializer(cls, self.next)},
             !.last = [cls |-> cls, method |-> method,
                       value |-> NewSerializer(cls, self.next)]]
    ELSE [self EXCEPT
             !.given[cls] = @ \cup {found},
             !.last = [cls |-> cls, method |-> method, value |-> found]]

\* cls.serializer(), or a method of the mixin that starts by calling it
MixinCall(cls, method) ==
    /\ mixin' = SerializerCalled(mixin, cls, method, GetSerializerAttr(mixin.own, cls))
    /\ UNCHANGED <<builder_vars, serializer_vars, name_vars, call_vars, validator_vars,
                   registry_vars, threads, attempt>>

InitMixin ==
    /\ mixin = [own |-> EmptyMap, next |-> 1,
                made |-> [cls \in MixinClasses |-> 0],
                given |-> [cls \in MixinClasses |-> {}],
                last |-> NoResult]
    /\ builder = Unused
    /\ keyed = AllKeyed
    /\ global_types = EmptyMap
    /\ next_id = 1
    /\ calls = 0
    /\ result = NoResult
    /\ overflow = FALSE
    /\ last_build = <<>>
    /\ serializer = Unused
    /\ op = NoOp
    /\ obj = Unused
    /\ data = Unused
    /\ loaded = Unused
    /\ keys = <<>>
    /\ names = <<>>
    /\ NoCalls
    /\ NoValidation
    /\ NoRegistryCalls
    /\ threads = <<>>
    /\ attempt = Unused

NextMixin == \E cls \in MixinClasses, method \in MixinMethods : MixinCall(cls, method)

SpecMixin == InitMixin /\ [][NextMixin]_vars

\* C30: for every class using SerializerMixin, C.serializer() returns a
\* Serializer built for C itself, the same instance on every later call,
\* whatever the order of the calls made on the class and its subclasses,
\* and the Serializer is constructed at most once per class
C30_OwnSerializerPerClass ==
    mixin # Unused =>
        \A cls \in MixinClasses :
            /\ \A s \in mixin.given[cls] : s.dataclass = cls
            /\ Cardinality(mixin.given[cls]) <= 1
            /\ mixin.made[cls] <= 1

\* every class is given one instance, constructed at most once per class
C30_OneInstancePerClass ==
    mixin # Unused =>
        \A cls \in MixinClasses :
            /\ Cardinality(mixin.given[cls]) <= 1
            /\ mixin.made[cls] <= 1

====
